---------------------------- MODULE Spec2Model ----------------------------
(***************************************************************************)
(* Model of the file-monitoring core of knowledge-focus (tauri-app/        *)
(* src-tauri/src): configuration cache and startup retry loop              *)
(* (file_monitor.rs, setup_file_monitor.rs), the per-watch debouncer       *)
(* (file_monitor_debounced.rs), the classification of one path             *)
(* (FileMonitor::process_file_event) and the batch processor               *)
(* (FileMonitor::batch_processor).                                         *)
(*                                                                         *)
(* The components are checked under one specification each (SpecStartup,   *)
(* SpecConfig, SpecClassify, SpecDebounce / SpecDebounceFair, SpecBatch,   *)
(* SpecBundle for the bundle-extension cache, SpecPipeline /               *)
(* SpecPipelineFair for one metadata channel end to end, SpecNormalize for *)
(* the two normalisations of an event kind, SpecWatch / SpecWatchFair for  *)
(* the native watches, SpecGate for the configuration-change queue); every *)
(* specification leaves the other components' variables at their initial   *)
(* value.                                                                  *)
(*                                                                         *)
(* Strings are sequences of tokens.  A token stands for a run of           *)
(* characters holding neither '/' nor '.'; "/" and "." are tokens of their *)
(* own, and "xFF" stands for a byte sequence that is not valid UTF-8.      *)
(***************************************************************************)
EXTENDS Integers, Sequences, FiniteSets, TLC

(***************************************************************************)
(* Strings                                                                 *)
(***************************************************************************)

\* Option<String>::None (a string is a sequence of tokens, and so is this)
None == <<"<none>">>

\* str::to_lowercase, token by token
LowerTok(t) ==
    CASE t = "PDF" -> "pdf"
      [] t = "APP" -> "app"
      [] t = "Report" -> "report"
      [] t = "Draft" -> "draft"
      [] OTHER -> t

ToLower(s) == [i \in 1..Len(s) |-> LowerTok(s[i])]

\* str::starts_with
StartsWith(s, pre) ==
    /\ Len(pre) <= Len(s)
    /\ SubSeq(s, 1, Len(pre)) = pre

\* str::ends_with
EndsWith(s, suf) ==
    /\ Len(suf) <= Len(s)
    /\ SubSeq(s, Len(s) - Len(suf) + 1, Len(s)) = suf

\* str::contains
Contains(s, pat) ==
    \E i \in 1..(Len(s) + 1) :
        /\ i + Len(pat) - 1 <= Len(s)
        /\ SubSeq(s, i, i + Len(pat) - 1) = pat

\* str::trim_end_matches('/')
RECURSIVE TrimEndSlash(_)
TrimEndSlash(s) ==
    IF s # <<>> /\ s[Len(s)] = "/" THEN TrimEndSlash(SubSeq(s, 1, Len(s) - 1)) ELSE s

\* str::split('/'): the parts between the separators, empty parts included
RECURSIVE SplitFrom(_, _, _)
SplitFrom(s, i, cur) ==
    IF i > Len(s) THEN <<cur>>
    ELSE IF s[i] = "/" THEN <<cur>> \o SplitFrom(s, i + 1, <<>>)
    ELSE SplitFrom(s, i + 1, Append(cur, s[i]))

SplitSlash(s) == SplitFrom(s, 1, <<>>)

\* whether an OsStr is valid UTF-8 (OsStr::to_str returns Some)
IsUtf8(s) == \A i \in 1..Len(s) : s[i] # "xFF"

\* Path::to_string_lossy: invalid sequences become U+FFFD
ToStringLossy(s) == [i \in 1..Len(s) |-> IF s[i] = "xFF" THEN "uFFFD" ELSE s[i]]

\* Path::file_name of a normalised absolute path: its last component
FileName(p) ==
    LET parts == SplitSlash(p)
        last == parts[Len(parts)]
    IN  IF last = <<>> \/ last = <<".", ".">> THEN None ELSE last

\* index of the last "." of a name, 0 when there is none
RECURSIVE LastDot(_, _)
LastDot(n, i) ==
    IF i = 0 THEN 0 ELSE IF n[i] = "." THEN i ELSE LastDot(n, i - 1)

\* Path::extension: the part after the last '.', unless the name has no '.'
\* or its only '.' is the first character
PathExtension(p) ==
    LET n == FileName(p)
    IN  IF n = None THEN None
        ELSE LET d == LastDot(n, Len(n))
             IN  IF d <= 1 THEN None ELSE SubSeq(n, d + 1, Len(n))

\* FileMonitor::extract_extension
extract_extension(p) ==
    LET e == PathExtension(p)
    IN  IF e = None \/ ~IsUtf8(e) THEN None ELSE ToLower(e)

is_hidden_file_NameOnly(p) ==
    LET n == FileName(p)
    IN  n # None /\ IsUtf8(n) /\ StartsWith(n, <<".">>)

\* FileMonitor::is_hidden_file
is_hidden_file(p) ==
    LET n == FileName(p)
    IN  \/ n # None /\ IsUtf8(n) /\ StartsWith(n, <<".">>)
        \/ /\ IsUtf8(p)
           /\ \E i \in 1..Len(SplitSlash(p)) :
                LET part == SplitSlash(p)[i]
                IN  /\ part # <<>>
                    /\ StartsWith(part, <<".">>)
                    /\ part # <<".">>
                    /\ part # <<".", ".">>

\* fallback_bundle_extensions of is_macos_bundle_folder
BundleExtensions ==
    { <<".", "app">>, <<".", "bundle">>, <<".", "framework">>, <<".", "fcpbundle">>,
      <<".", "photoslibrary">>, <<".", "imovielibrary">>, <<".", "tvlibrary">>,
      <<".", "theater">> }

\* cfg!(target_os = "macos") of the build the application ships
TargetMacos == TRUE

\* FileMonitor::is_macos_bundle_folder; fs says what the path is on disk:
\* "bundle_dir" is a directory with Contents/Info.plist
is_macos_bundle_folder(p, fs) ==
    IF p = <<>> THEN FALSE
    ELSE \/ /\ FileName(p) # None
            /\ IsUtf8(FileName(p))
            /\ \E ext \in BundleExtensions : EndsWith(ToLower(FileName(p)), ext)
         \/ /\ IsUtf8(p)
            /\ \E i \in 1..Len(SplitSlash(p)) :
                 \E ext \in BundleExtensions : EndsWith(ToLower(SplitSlash(p)[i]), ext)
         \/ fs = "bundle_dir" /\ TargetMacos

\* FileMonitor::is_inside_macos_bundle
is_inside_macos_bundle(p) ==
    /\ IsUtf8(p)
    /\ \E ext \in BundleExtensions : Contains(p, ext \o <<"/">>)

(***************************************************************************)
(* Configuration structures                                                *)
(***************************************************************************)

\* Option<AllConfigurations>::None
NoConfig == [is_some |-> FALSE]

MkDir(i, p, bl, auth) ==
    [id |-> i, path |-> p, is_blacklist |-> bl, auth_status |-> auth]

DirDocs    == MkDir(1, <<"/", "data", "/", "docs">>, FALSE, "Authorized")
DirPics    == MkDir(2, <<"/", "data", "/", "pics">>, FALSE, "Pending")
DirPrivate == MkDir(3, <<"/", "data", "/", "docs", "/", "private">>, TRUE, "Authorized")
DirTmp     == MkDir(4, <<"/", "data", "/", "tmp">>, FALSE, "Unauthorized")

FolderCatalog == <<DirDocs, DirPics, DirPrivate, DirTmp>>

\* the sub-lists of a list, order kept, chosen by a set of indices
RECURSIVE PickFrom(_, _, _)
PickFrom(cat, keep, i) ==
    IF i > Len(cat) THEN <<>>
    ELSE (IF i \in keep THEN <<cat[i]>> ELSE <<>>) \o PickFrom(cat, keep, i + 1)

FolderLists == { PickFrom(FolderCatalog, keep, 1) : keep \in SUBSET (1..Len(FolderCatalog)) }

ExtMap(e, c) == [extension |-> e, category_id |-> c]

MkConfig(folders, fda, exts, rules) ==
    [is_some |-> TRUE,
     file_categories |-> <<[id |-> 1, name |-> "document"], [id |-> 2, name |-> "text"]>>,
     file_filter_rules |-> rules,
     file_extension_maps |-> exts,
     monitored_folders |-> folders,
     full_disk_access |-> fda]

\* the answers of GET /config/all used for the configuration cache and startup
FolderResponses ==
    { MkConfig(fl, fda, <<ExtMap(<<"pdf">>, 1)>>, <<>>) :
        fl \in FolderLists, fda \in BOOLEAN }

(***************************************************************************)
(* State                                                                   *)
(***************************************************************************)

VARIABLES
    \* FileMonitor (shared by its clones through Arc<Mutex<..>>)
    config_cache, monitored_dirs, blacklist_dirs,
    fetch_ok,        \* number of successful fetch_and_store_all_config calls
    cfg_last,        \* the latest call on the FileMonitor and its Result
    \* start_monitoring_setup_and_initial_scan and its caller
    s_pc, retries, config_fetched, attempts, last_attempt, s_result,
    batch_started, scan_started, watches, emitted,
    \* one debounced watch (setup_single_debounced_watch) and the central handler
    cb_pending,      \* what the running watcher callback has still to send
    debounce_q,      \* the channel debounce_tx -> debounce_rx
    debounce_buffer, \* HashMap<PathBuf, EventKind> of the debounce task
    fwd_pending,     \* events_to_process of the tick being forwarded
    central_q,       \* the channel to the central handler
    handled,         \* (path, simplified_kind) given to process_file_event
    ev_count,        \* raw events delivered by the native watcher so far
    win,             \* raw events put in the buffer since the last tick
    last_flush,      \* the window and the records of the tick whose take is being forwarded
    ev_done,         \* raw events whose record reached the central channel
    \* one call of process_file_event
    c_path, c_kind, c_fs, c_pc, c_meta, c_result, c_reads, c_rules_ran,
    c_hashed, stats,
    \* one batch_processor task
    batch, last_send, now, sleep_start, b_stats, dispatched, bp_running,
    recv_count,
    batch_since,     \* when the oldest record of batch was pushed, 0 if none
    \* the bundle-extension cache of FileMonitor and one ensure_bundle_cache_valid
    bundle_extensions_cache, bundle_cache_timestamp,
    wall,            \* SystemTime::now()
    e_pc, e_refresh, e_result,
    \* one metadata channel with its producers (initial scan or single scan,
    \* central handler) and its batch processor
    p_mode,          \* which function made the channel
    p_api_up,        \* whether POST /file-screening/batch succeeds
    tx_holders,      \* who owns a Sender of the channel
    metadata_q,      \* the channel
    scan_todo,       \* entries the directory walk has not come to yet
    scan_counts,     \* processed_files, skipped_files, skipped_bundles of the scan
    live_todo,       \* records the central handler has not received yet
    p_src,           \* who is inside process_file_event
    p_sent,          \* what was sent on the channel, by whom
    \* one raw event on its way from the watcher callback to process_file_event
    n_pc, n_raw, n_path,
    n_fs,            \* what the path is on disk now
    n_norm_fs,       \* what it was when the callback looked
    n_kind,          \* processed_kind of the callback
    n_final,         \* simplified_kind given to process_file_event
    \* the native watches and what AppState holds
    native_watches,  \* live watcher threads per directory
    app_file_monitor,\* AppState.file_monitor is Some
    app_deb,         \* AppState.debounced_file_monitor: "none", or whether its event_tx is set
    w_backend,       \* the task spawned by start_backend_scanning
    forwarded,       \* events the watches have brought to the central handler
    \* the configuration-change queue of AppState and the scan-completion listener
    initial_scan_completed, pending_config_changes,
    g_scan,          \* the task of perform_initial_scan
    g_left,          \* files the walk has not come to yet
    g_scan_count,    \* processed_files of perform_initial_scan (the local)
    g_processed,     \* MonitorStats.processed_files
    g_pc,            \* the listener task
    g_checkpoint,    \* checkpoint_files
    g_elapsed,       \* start_time.elapsed(), in check intervals
    g_stable_seen,   \* the listener has found the counter unchanged
    g_issued,        \* changes the front end has sent
    g_spawned,       \* batches given to execute_config_changes
    g_exec,          \* changes executed, and whether the scan was running then
    \* one call of FileMonitor::is_macos_bundle_folder
    det,
    \* one task of AppState::execute_config_changes
    cu,
    \* the locks of monitored_dirs and blacklist_dirs, with one
    \* process_file_event and the task that refreshes the configuration
    lk,
    \* the watches that observe one path, and their central handler
    mw,
    \* one call of FileMonitor::apply_initial_rules
    ru,
    \* the walk of perform_initial_scan over one directory tree
    sw,
    \* the bridge-event buffer for one event name: EventBuffer
    eb,
    \* the queue of configuration changes and the tasks that execute what was taken from it
    cq,
    \* the threads that run functions of one FileMonitor, and its mutexes
    lo

cfgVars == <<config_cache, monitored_dirs, blacklist_dirs, fetch_ok, cfg_last>>

startVars == <<s_pc, retries, config_fetched, attempts, last_attempt, s_result,
               batch_started, scan_started, watches, emitted>>

debVars == <<cb_pending, debounce_q, debounce_buffer, fwd_pending, central_q,
             handled, ev_count, win, last_flush, ev_done>>

clsVars == <<c_path, c_kind, c_fs, c_pc, c_meta, c_result, c_reads,
             c_rules_ran, c_hashed, stats>>

batVars == <<batch, last_send, now, sleep_start, b_stats, dispatched,
             bp_running, recv_count, batch_since>>

bunVars == <<bundle_extensions_cache, bundle_cache_timestamp, wall, e_pc,
             e_refresh, e_result>>

pipVars == <<p_mode, p_api_up, tx_holders, metadata_q, scan_todo, scan_counts,
             live_todo, p_src, p_sent>>

normVars == <<n_pc, n_raw, n_path, n_fs, n_norm_fs, n_kind, n_final>>

watVars == <<native_watches, app_file_monitor, app_deb, w_backend, forwarded>>

gateVars == <<initial_scan_completed, pending_config_changes, g_scan, g_left,
              g_scan_count, g_processed, g_pc, g_checkpoint, g_elapsed,
              g_stable_seen, g_issued, g_spawned, g_exec>>

detVars == <<det>>

\* the components checked on their own beside the ones above
cuVars == <<cu>>

lkVars == <<lk>>

mwVars == <<mw>>

ruVars == <<ru>>

swVars == <<sw>>

ebVars == <<eb>>

cqVars == <<cq>>

loVars == <<lo>>

moreVars == <<detVars, cuVars, lkVars, mwVars, ruVars, swVars, ebVars, cqVars, loVars>>

newVars == <<normVars, watVars, gateVars, moreVars>>

\* the components added to the five above
extVars == <<bunVars, pipVars, newVars>>

coreVars == <<cfgVars, startVars, debVars, clsVars, batVars>>

vars == <<coreVars, extVars>>

\* what the actions of the bundle cache leave alone
bunRest == <<coreVars, pipVars, newVars>>

\* what the actions of the metadata pipeline leave alone
pipRest == <<cfgVars, startVars, debVars, bunVars, newVars>>

\* what the steps of one raw event leave alone
normRest == <<coreVars, bunVars, pipVars, watVars, gateVars, moreVars>>

\* what the commands on the watches leave alone (they fetch the configuration)
watRest == <<startVars, debVars, clsVars, batVars, bunVars, pipVars, normVars,
            gateVars, moreVars>>

\* what the steps around the configuration-change queue leave alone
gateRest == <<coreVars, bunVars, pipVars, normVars, watVars, moreVars>>

\* the components up to the configuration-change queue
oldVars == <<coreVars, bunVars, pipVars, normVars, watVars, gateVars>>

\* what a call of is_macos_bundle_folder leaves alone
detRest == <<oldVars, cuVars, lkVars, mwVars, ruVars, swVars, ebVars, cqVars,
           loVars>>

\* what execute_config_changes leaves alone (its refresh fetches the
\* configuration)
cuRest == <<startVars, debVars, clsVars, batVars, bunVars, pipVars, normVars,
           watVars, gateVars, detVars, lkVars, mwVars, ruVars, swVars,
           ebVars, cqVars, loVars>>

\* what the steps around the two locks leave alone (the refresh stores the
\* configuration)
lkRest == <<startVars, debVars, clsVars, batVars, bunVars, pipVars, normVars,
           watVars, gateVars, detVars, cuVars, mwVars, ruVars, swVars,
           ebVars, cqVars, loVars>>

\* what the watches of one path leave alone
mwRest == <<oldVars, detVars, cuVars, lkVars, ruVars, swVars, ebVars, cqVars,
           loVars>>

\* what a call of apply_initial_rules leaves alone
ruRest == <<oldVars, detVars, cuVars, lkVars, mwVars, swVars, ebVars, cqVars,
           loVars>>

\* what a step of the walk leaves alone
swRest == <<oldVars, detVars, cuVars, lkVars, mwVars, ruVars, ebVars, cqVars,
           loVars>>

\* what the event buffer leaves alone
ebRest == <<oldVars, detVars, cuVars, lkVars, mwVars, ruVars, swVars, cqVars,
           loVars>>

\* what the queue of configuration changes and its tasks leave alone
cqRest == <<oldVars, detVars, cuVars, lkVars, mwVars, ruVars, swVars, ebVars,
           loVars>>

\* what the threads around the mutexes leave alone
loRest == <<oldVars, detVars, cuVars, lkVars, mwVars, ruVars, swVars, ebVars, cqVars>>

\* bound on the number of successful configuration fetches in one run
MaxFetches == 2

(***************************************************************************)
(* Configuration cache: FileMonitor::new, fetch_and_store_all_config       *)
(***************************************************************************)

\* FileMonitor::new
CfgInit ==
    /\ config_cache = NoConfig
    /\ monitored_dirs = <<>>
    /\ blacklist_dirs = <<>>
    /\ fetch_ok = 0
    /\ cfg_last = [op |-> "new", ok |-> TRUE]

ShouldMonitorIgnoringAuth(dir, fda) == TRUE

\* should_monitor of fetch_and_store_all_config
ShouldMonitor(dir, fda) ==
    IF fda THEN TRUE ELSE dir.auth_status = "Authorized"

\* the loop over config_data.monitored_folders: acc.bl is blacklist_dirs_lock,
\* acc.au is authorized_folders
RECURSIVE ClassifyFolders(_, _, _, _)
ClassifyFolders(folders, fda, i, acc) ==
    IF i > Len(folders) THEN acc
    ELSE LET dir == folders[i]
         IN  IF dir.is_blacklist
             THEN ClassifyFolders(folders, fda, i + 1,
                                  [acc EXCEPT !.bl = Append(@, dir)])
             ELSE IF ShouldMonitor(dir, fda)
             THEN ClassifyFolders(folders, fda, i + 1,
                                  [acc EXCEPT !.au = Append(@, dir)])
             ELSE ClassifyFolders(folders, fda, i + 1, acc)

\* an Ok arm that stores the two sets and leaves the cache as it was
StoreConfigListsOnly(resp) ==
    LET r == ClassifyFolders(resp.monitored_folders, resp.full_disk_access, 1,
                             [bl |-> <<>>, au |-> <<>>])
    IN  /\ UNCHANGED config_cache
        /\ blacklist_dirs' = r.bl
        /\ monitored_dirs' = r.au
        /\ fetch_ok' = fetch_ok + 1

\* the Ok(config_data) arm of fetch_and_store_all_config.  The three locks are
\* taken in turn and released together, and every reader holds one of them
\* at a time, so the update is one step for every reader.
StoreConfig(resp) ==
    LET r == ClassifyFolders(resp.monitored_folders, resp.full_disk_access, 1,
                             [bl |-> <<>>, au |-> <<>>])
    IN  /\ config_cache' = resp
        /\ blacklist_dirs' = r.bl
        /\ monitored_dirs' = r.au
        /\ fetch_ok' = fetch_ok + 1

\* fetch_and_store_all_config returning Ok(())
FetchOk(resp) ==
    /\ StoreConfig(resp)
    /\ cfg_last' = [op |-> "fetch", ok |-> TRUE]

\* FileMonitor::get_configurations: a clone of what config_cache holds
get_configurations == config_cache

\* a failure that resets the cache and both lists
FetchErrClears ==
    /\ config_cache' = NoConfig
    /\ monitored_dirs' = <<>>
    /\ blacklist_dirs' = <<>>
    /\ UNCHANGED fetch_ok
    /\ cfg_last' = [op |-> "fetch", ok |-> FALSE]

\* fetch_and_store_all_config returning Err: the request failed, the status
\* was no success or the body did not parse
FetchErr ==
    /\ UNCHANGED <<config_cache, monitored_dirs, blacklist_dirs, fetch_ok>>
    /\ cfg_last' = [op |-> "fetch", ok |-> FALSE]

\* Vec::remove(index)
RemoveAt(seq, i) == SubSeq(seq, 1, i - 1) \o SubSeq(seq, i + 1, Len(seq))

\* iter().position(|dir| dir.id == Some(directory_id)), 0 when there is none
PositionOfId(dirs, id) ==
    IF \E i \in 1..Len(dirs) : dirs[i].id = id
    THEN CHOOSE i \in 1..Len(dirs) :
            /\ dirs[i].id = id
            /\ \A j \in 1..(i - 1) : dirs[j].id # id
    ELSE 0

\* a stop that looks for the id in the blacklist whether or not the monitored
\* list holds it
StopMonitoringDirectoryAnyList(id) ==
    LET index == PositionOfId(monitored_dirs, id)
        bl_index == PositionOfId(blacklist_dirs, id)
    IN  /\ monitored_dirs' = IF index # 0 THEN RemoveAt(monitored_dirs, index)
                                           ELSE monitored_dirs
        /\ blacklist_dirs' = IF bl_index # 0
                             THEN RemoveAt(blacklist_dirs, bl_index)
                             ELSE blacklist_dirs
        /\ cfg_last' = [op |-> "stop", ok |-> index # 0, id |-> id]
        /\ UNCHANGED <<config_cache, fetch_ok>>

\* FileMonitor::stop_monitoring_directory
StopMonitoringDirectory(id) ==
    LET index == PositionOfId(monitored_dirs, id)
        bl_index == PositionOfId(blacklist_dirs, id)
    IN  /\ monitored_dirs' = IF index # 0 THEN RemoveAt(monitored_dirs, index)
                                           ELSE monitored_dirs
        /\ blacklist_dirs' = IF index # 0 /\ bl_index # 0
                             THEN RemoveAt(blacklist_dirs, bl_index)
                             ELSE blacklist_dirs
        /\ cfg_last' = [op |-> "stop", ok |-> index # 0, id |-> id]
        /\ UNCHANGED <<config_cache, fetch_ok>>

\* the first index whose path is the given one, 0 when there is none
PositionOfPath(dirs, path) ==
    IF \E i \in 1..Len(dirs) : dirs[i].path = path
    THEN CHOOSE i \in 1..Len(dirs) :
            /\ dirs[i].path = path
            /\ \A j \in 1..(i - 1) : dirs[j].path # path
    ELSE 0

\* FileMonitor::update_directory_status
UpdateDirectoryStatus(path, status) ==
    LET i == PositionOfPath(monitored_dirs, path)
    IN  /\ monitored_dirs' = IF i # 0
                             THEN [monitored_dirs EXCEPT ![i].auth_status = status]
                             ELSE monitored_dirs
        /\ cfg_last' = [op |-> "status", ok |-> TRUE]
        /\ UNCHANGED <<config_cache, blacklist_dirs, fetch_ok>>

(***************************************************************************)
(* Startup: start_monitoring_setup_and_initial_scan called on a new        *)
(* FileMonitor by setup_auto_file_monitoring                               *)
(***************************************************************************)

\* max_retries of start_monitoring_setup_and_initial_scan
MaxRetries == 30

StartInit ==
    /\ s_pc = "loop"
    /\ retries = 0
    /\ config_fetched = FALSE
    /\ attempts = 0
    /\ last_attempt = NoConfig
    /\ s_result = "none"
    /\ batch_started = FALSE
    /\ scan_started = FALSE
    /\ watches = <<>>
    /\ emitted = {}

\* startup not entered: the value of its variables under the other specifications
StartIdle ==
    /\ s_pc = "idle"
    /\ retries = 0
    /\ config_fetched = FALSE
    /\ attempts = 0
    /\ last_attempt = NoConfig
    /\ s_result = "none"
    /\ batch_started = FALSE
    /\ scan_started = FALSE
    /\ watches = <<>>
    /\ emitted = {}

RetryGuardOffByOne(fetched, n) == ~fetched /\ n <= MaxRetries

\* while !config_fetched && retries < max_retries
RetryGuard(fetched, n) == ~fetched /\ n < MaxRetries

\* one turn of the loop whose fetch fails: retries += 1; sleep(1 s)
StartFetchFail ==
    /\ s_pc = "loop"
    /\ RetryGuard(config_fetched, retries)
    /\ FetchErr
    /\ retries' = retries + 1
    /\ attempts' = attempts + 1
    /\ last_attempt' = NoConfig
    /\ UNCHANGED <<extVars, debVars, clsVars, batVars, s_pc, config_fetched, s_result, batch_started, scan_started,
                   watches, emitted>>

\* one turn of the loop whose fetch succeeds: config_fetched = true
StartFetchOk ==
    \E resp \in FolderResponses :
        /\ s_pc = "loop"
        /\ RetryGuard(config_fetched, retries)
        /\ FetchOk(resp)
        /\ config_fetched' = TRUE
        /\ attempts' = attempts + 1
        /\ last_attempt' = resp
        /\ UNCHANGED <<extVars, debVars, clsVars, batVars, s_pc, retries, s_result, batch_started, scan_started,
                       watches, emitted>>

\* if !config_fetched { return Err(error) }
StartGiveUp ==
    /\ s_pc = "loop"
    /\ ~RetryGuard(config_fetched, retries)
    /\ ~config_fetched
    /\ s_result' = "err"
    /\ s_pc' = "returned"
    /\ UNCHANGED <<extVars, debVars, clsVars, batVars, cfgVars, retries, config_fetched, attempts, last_attempt,
                   batch_started, scan_started, watches, emitted>>

\* the metadata channel is created, batch_processor and perform_initial_scan
\* are spawned, Ok(()) is returned
StartSpawn ==
    /\ s_pc = "loop"
    /\ ~RetryGuard(config_fetched, retries)
    /\ config_fetched
    /\ batch_started' = TRUE
    /\ scan_started' = TRUE
    /\ s_result' = "ok"
    /\ s_pc' = "returned"
    /\ UNCHANGED <<extVars, debVars, clsVars, batVars, cfgVars, retries, config_fetched, attempts, last_attempt,
                   watches, emitted>>

\* the main window is hidden, never closed, while the application runs
MainWindowExists == TRUE

\* the elements of a sequence
Range(seq) == { seq[i] : i \in 1..Len(seq) }

\* the paths of a directory list
RECURSIVE PathsOf(_)
PathsOf(dirs) ==
    IF dirs = <<>> THEN <<>> ELSE <<dirs[1].path>> \o PathsOf(Tail(dirs))

\* Ok arm of setup_auto_file_monitoring: DebouncedFileMonitor::start_monitoring
\* over the monitored directories; setting up the watch of one directory may
\* fail, which is logged and does not stop the others
SetupWatches ==
    \E up \in SUBSET (1..Len(monitored_dirs)) :
        /\ s_pc = "returned"
        /\ s_result = "ok"
        /\ watches' = PickFrom(PathsOf(monitored_dirs), up, 1)
        /\ emitted' = IF MainWindowExists
                      THEN emitted \cup {"file-monitor-started"} ELSE emitted
        /\ s_pc' = "done"
        /\ UNCHANGED <<extVars, debVars, clsVars, batVars, cfgVars, retries, config_fetched, attempts, last_attempt,
                       s_result, batch_started, scan_started>>

ReportNothing(e) == e

\* window.emit("file-monitor-error", e.to_string())
ReportStartupError(e) ==
    IF MainWindowExists THEN e \cup {"file-monitor-error"} ELSE e

\* Err arm of setup_auto_file_monitoring
SetupReportError ==
    /\ s_pc = "returned"
    /\ s_result = "err"
    /\ emitted' = ReportStartupError(emitted)
    /\ s_pc' = "done"
    /\ UNCHANGED <<extVars, debVars, clsVars, batVars, cfgVars, retries, config_fetched, attempts, last_attempt,
                   s_result, batch_started, scan_started, watches>>

(***************************************************************************)
(* Initial values of the components a specification does not run           *)
(***************************************************************************)

DebIdle ==
    /\ cb_pending = <<>>
    /\ debounce_q = <<>>
    /\ debounce_buffer = <<>>
    /\ fwd_pending = {}
    /\ central_q = <<>>
    /\ handled = {}
    /\ ev_count = 0
    /\ win = <<>>
    /\ last_flush = <<>>
    /\ ev_done = {}

ClsIdle ==
    /\ c_path = <<>>
    /\ c_kind = "none"
    /\ c_fs = "none"
    /\ c_pc = "idle"
    /\ c_meta = [is_some |-> FALSE]
    /\ c_result = [is_some |-> FALSE]
    /\ c_reads = {}
    /\ c_rules_ran = FALSE
    /\ c_hashed = FALSE
    /\ stats = [processed_files |-> 0, filtered_files |-> 0, filtered_bundles |-> 0,
                error_count |-> 0]

BatIdle ==
    /\ batch = <<>>
    /\ last_send = 0
    /\ now = 0
    /\ sleep_start = 0
    /\ b_stats = <<>>
    /\ dispatched = <<>>
    /\ bp_running = FALSE
    /\ recv_count = 0
    /\ batch_since = 0

BunIdle ==
    /\ bundle_extensions_cache = [is_some |-> FALSE]
    /\ bundle_cache_timestamp = [is_some |-> FALSE]
    /\ wall = 0
    /\ e_pc = "idle"
    /\ e_refresh = "none"
    /\ e_result = [is_some |-> FALSE]

PipIdle ==
    /\ p_mode = "none"
    /\ p_api_up = FALSE
    /\ tx_holders = {}
    /\ metadata_q = <<>>
    /\ scan_todo = <<>>
    /\ scan_counts = [processed |-> 0, skipped |-> 0, bundles |-> 0]
    /\ live_todo = <<>>
    /\ p_src = "none"
    /\ p_sent = <<>>

NormIdle ==
    /\ n_pc = "idle"
    /\ n_raw = "none"
    /\ n_path = <<>>
    /\ n_fs = "missing"
    /\ n_norm_fs = "none"
    /\ n_kind = "none"
    /\ n_final = "none"

\* the directories a watch can be on
WatchPaths == {DirDocs.path, DirPics.path}

WatIdle ==
    /\ native_watches = [d \in WatchPaths |-> 0]
    /\ app_file_monitor = FALSE
    /\ app_deb = "none"
    /\ w_backend = "idle"
    /\ forwarded = {}

\* AppState::new, nothing started
GateIdle ==
    /\ initial_scan_completed = FALSE
    /\ pending_config_changes = <<>>
    /\ g_scan = "none"
    /\ g_left = 0
    /\ g_scan_count = 0
    /\ g_processed = 0
    /\ g_pc = "off"
    /\ g_checkpoint = 0
    /\ g_elapsed = 0
    /\ g_stable_seen = FALSE
    /\ g_issued = {}
    /\ g_spawned = <<>>
    /\ g_exec = {}

DetIdle == det = [pc |-> "idle", path |-> <<>>, fs |-> "missing", result |-> FALSE]

CuIdle == cu = [pc |-> "idle", todo |-> <<>>, retry_count |-> 0, tries |-> <<>>,
                slept |-> <<>>, log |-> <<>>, refreshes |-> <<>>]

LkIdle == lk = [mon |-> "none", bl |-> "none", c_pc |-> "idle", c_path |-> <<>>,
                c_fs |-> "missing", c_i |-> 0, c_result |-> "none",
                r_pc |-> "idle", r_resp |-> NoConfig, io |-> {}]

MwIdle == mw = [watches |-> {}, events |-> <<>>, seen |-> <<>>, buffer |-> <<>>,
                taken |-> <<>>, channel |-> <<>>, delivered |-> <<>>]

RuIdle == ru = [pc |-> "idle", cfg |-> NoConfig, meta |-> [is_some |-> FALSE],
                out |-> [is_some |-> FALSE]]

SwIdle == sw = [pc |-> "idle", cfg |-> NoConfig, monitored |-> <<>>,
                blacklist |-> <<>>, todo |-> <<>>, skipped |-> {}, walked |-> {}]

EbIdle == eb = [pc |-> "idle", name |-> "", clock |-> 0, next_tick |-> 0,
                entry |-> [is_some |-> FALSE], log |-> <<>>, sent |-> 0]

CqIdle == cq = [completed |-> FALSE, pending |-> <<>>, issued |-> 0, tasks |-> <<>>,
                started |-> {}, finished |-> {}, order |-> <<>>]

LoIdle == lo = [fn |-> <<>>, pos |-> <<>>, fate |-> <<>>, owner |-> <<>>, poisoned |-> {}]

MoreIdle == DetIdle /\ CuIdle /\ LkIdle /\ MwIdle /\ RuIdle /\ SwIdle /\ EbIdle /\ CqIdle /\ LoIdle

\* the components up to the configuration-change queue, not started
OldIdle ==
    /\ StartIdle /\ DebIdle /\ ClsIdle /\ BatIdle /\ BunIdle /\ PipIdle
    /\ NormIdle /\ WatIdle /\ GateIdle

NewIdle == NormIdle /\ WatIdle /\ GateIdle /\ MoreIdle

ExtIdle == BunIdle /\ PipIdle /\ NewIdle

(***************************************************************************)
(* Specification of the startup                                            *)
(***************************************************************************)

InitStartup == CfgInit /\ StartInit /\ DebIdle /\ ClsIdle /\ BatIdle /\ ExtIdle

NextStartup ==
    \/ StartFetchFail
    \/ StartFetchOk
    \/ StartGiveUp
    \/ StartSpawn
    \/ SetupWatches
    \/ SetupReportError

SpecStartup == InitStartup /\ [][NextStartup]_vars

(***************************************************************************)
(* Specification of the configuration cache: refreshes and the changes of  *)
(* the monitored set made through the commands                             *)
(***************************************************************************)

\* refresh_folder_configuration / update_monitored_directories, fetch succeeds
CfgFetchOk ==
    \E resp \in FolderResponses :
        /\ fetch_ok < MaxFetches
        /\ FetchOk(resp)
        /\ UNCHANGED <<extVars, startVars, debVars, clsVars, batVars>>

\* refresh_folder_configuration / update_monitored_directories, fetch fails
CfgFetchErr ==
    /\ FetchErr
    /\ UNCHANGED <<extVars, startVars, debVars, clsVars, batVars>>

\* the stop_monitoring_directory command
CfgStop ==
    \E id \in 1..(Len(FolderCatalog) + 1) :
        /\ StopMonitoringDirectory(id)
        /\ UNCHANGED <<extVars, startVars, debVars, clsVars, batVars>>

\* update_directory_status
CfgStatus ==
    \E i \in 1..Len(FolderCatalog), status \in {"Pending", "Authorized", "Unauthorized"} :
        /\ UpdateDirectoryStatus(FolderCatalog[i].path, status)
        /\ UNCHANGED <<extVars, startVars, debVars, clsVars, batVars>>

InitConfig == CfgInit /\ StartIdle /\ DebIdle /\ ClsIdle /\ BatIdle /\ ExtIdle

NextConfig ==
    \/ CfgFetchOk
    \/ CfgFetchErr
    \/ CfgStop
    \/ CfgStatus

SpecConfig == InitConfig /\ [][NextConfig]_vars

(***************************************************************************)
(* One debounced watch: setup_single_debounced_watch, and the central      *)
(* handler of DebouncedFileMonitor::start_monitoring                       *)
(***************************************************************************)

\* bound on the raw (event, path) pairs the native watcher delivers in one run
MaxEvents == 3

\* capacity of the channel debounce_tx -> debounce_rx; mpsc::channel(100) in
\* the source, scaled down
DebounceCap == 2

\* capacity of the channel to the central handler; mpsc::channel(100) in the
\* source, scaled down
CentralCap == 1

PathA == <<"/", "data", "/", "docs", "/", "a", ".", "pdf">>
PathB == <<"/", "data", "/", "docs", "/", "b", ".", "pdf">>

DebPaths == {PathA, PathB}

\* the paths of one notify::Event
EventPathLists == { <<q>> : q \in DebPaths } \cup { <<PathA, PathB>> }

\* notify::EventKind as far as the code tells the kinds apart
RawKinds == {"Create", "Remove", "Modify"}

\* path.exists() && path.is_file(), taken only for the kinds that need it
Checks(raw) == IF raw \in {"Create", "Remove"} THEN {"unchecked"} ELSE {"file", "nofile"}

\* processed_kind of the watcher callback
ProcessedKind(raw, chk) ==
    CASE raw = "Create" -> "Create"
      [] raw = "Remove" -> "Remove"
      [] OTHER -> IF chk = "file" THEN "Create" ELSE "Remove"

\* simplified_kind of the central handler: Create(File) is Added, Remove(File)
\* is Removed
SimplifiedKind(kind, chk) ==
    CASE kind = "Create" -> "Added"
      [] kind = "Remove" -> "Removed"
      [] kind = "RenameBoth" -> "Added"
      [] kind = "RenameTo" -> "Added"
      [] kind = "RenameFrom" -> "Removed"
      [] OTHER -> IF chk = "file" THEN "Added" ELSE "Removed"

NoEntry == [kind |-> "absent", evs |-> {}]

EmptyBuffer == [q \in DebPaths |-> NoEntry]

EmptyWindow == [q \in DebPaths |-> <<>>]

\* last_flush while no take is being forwarded
NoFlush == [win |-> EmptyWindow, out |-> {}]

DebInit ==
    /\ cb_pending = <<>>
    /\ debounce_q = <<>>
    /\ debounce_buffer = EmptyBuffer
    /\ fwd_pending = {}
    /\ central_q = <<>>
    /\ handled = {}
    /\ ev_count = 0
    /\ win = EmptyWindow
    /\ last_flush = NoFlush
    /\ ev_done = {}

\* the raw items of one event, numbered as they arrive
RECURSIVE RawItems(_, _, _)
RawItems(paths, raw, n) ==
    IF paths = <<>> THEN <<>>
    ELSE <<[path |-> paths[1], raw |-> raw, id |-> n + 1]>>
         \o RawItems(Tail(paths), raw, n + 1)

\* the native watcher calls the callback with one event; the callback runs
\* on the watcher's thread, one event at a time
NativeEvent ==
    \E paths \in EventPathLists, raw \in RawKinds :
        /\ cb_pending = <<>>
        /\ ev_count + Len(paths) <= MaxEvents
        /\ cb_pending' = RawItems(paths, raw, ev_count)
        /\ ev_count' = ev_count + Len(paths)
        /\ UNCHANGED <<debounce_q, debounce_buffer, fwd_pending, central_q,
                       handled, win, last_flush, ev_done>>
        /\ UNCHANGED <<extVars, cfgVars, startVars, clsVars, batVars>>

\* try_send in place of send().await: a full queue drops the item
CallbackSendDropOnFull ==
    /\ cb_pending # <<>>
    /\ \E chk \in Checks(cb_pending[1].raw) :
            /\ debounce_q' =
                  IF Len(debounce_q) < DebounceCap
                  THEN Append(debounce_q,
                              [path |-> cb_pending[1].path,
                               kind |-> ProcessedKind(cb_pending[1].raw, chk),
                               raw |-> cb_pending[1].raw,
                               chk |-> chk,
                               id |-> cb_pending[1].id])
                  ELSE debounce_q
            /\ cb_pending' = Tail(cb_pending)
            /\ UNCHANGED <<debounce_buffer, fwd_pending, central_q, handled,
                           ev_count, win, last_flush, ev_done>>
            /\ UNCHANGED <<extVars, cfgVars, startVars, clsVars, batVars>>

\* one turn of the callback's loop over the paths: the kind is normalised and
\* debounce_tx.send((path, processed_kind)).await returns once the queue has room
CallbackSend ==
    /\ cb_pending # <<>>
    /\ \E chk \in Checks(cb_pending[1].raw) :
            /\ Len(debounce_q) < DebounceCap
            /\ debounce_q' = Append(debounce_q,
                                    [path |-> cb_pending[1].path,
                                     kind |-> ProcessedKind(cb_pending[1].raw, chk),
                                     raw |-> cb_pending[1].raw,
                                     chk |-> chk,
                                     id |-> cb_pending[1].id])
            /\ cb_pending' = Tail(cb_pending)
            /\ UNCHANGED <<debounce_buffer, fwd_pending, central_q, handled,
                           ev_count, win, last_flush, ev_done>>
            /\ UNCHANGED <<extVars, cfgVars, startVars, clsVars, batVars>>

BufferInsertKeepFirst(buf, path, kind, id) ==
    [buf EXCEPT ![path] = [kind |-> IF @.kind = "absent" THEN kind ELSE @.kind,
                           evs |-> @.evs \cup {id}]]

\* debounce_buffer.insert(path, kind): a later event of a path replaces the
\* earlier one (evs remembers the raw events the entry stands for)
BufferInsert(buf, path, kind, id) ==
    [buf EXCEPT ![path] = [kind |-> kind, evs |-> @.evs \cup {id}]]

\* select! arm debounce_rx.recv() of the debounce task
DebounceRecv ==
    /\ fwd_pending = {}
    /\ debounce_q # <<>>
    /\ LET item == Head(debounce_q)
       IN  /\ debounce_buffer' =
                 BufferInsert(debounce_buffer, item.path, item.kind, item.id)
           /\ win' = [win EXCEPT ![item.path] =
                         Append(@, [raw |-> item.raw, chk |-> item.chk])]
    /\ debounce_q' = Tail(debounce_q)
    /\ UNCHANGED <<cb_pending, fwd_pending, central_q, handled, ev_count,
                   last_flush, ev_done>>
    /\ UNCHANGED <<extVars, cfgVars, startVars, clsVars, batVars>>

\* the entries of the buffer
BufferEntries(buf) ==
    { [path |-> q, kind |-> buf[q].kind, evs |-> buf[q].evs] :
        q \in { x \in DebPaths : buf[x].kind # "absent" } }

\* a tick that copies the buffer and leaves it as it is
DebounceTickKeepsBuffer ==
    /\ fwd_pending = {}
    /\ debounce_buffer # EmptyBuffer
    /\ fwd_pending' = BufferEntries(debounce_buffer)
    /\ debounce_buffer' = debounce_buffer
    /\ last_flush' = [win |-> win,
                      out |-> { [path |-> e.path, kind |-> e.kind] :
                                  e \in BufferEntries(debounce_buffer) }]
    /\ win' = EmptyWindow
    /\ UNCHANGED <<cb_pending, debounce_q, central_q, handled, ev_count, ev_done>>
    /\ UNCHANGED <<extVars, cfgVars, startVars, clsVars, batVars>>

\* select! arm interval.tick() with a buffer that is not empty:
\* events_to_process = std::mem::take(&mut debounce_buffer)
DebounceTick ==
    /\ fwd_pending = {}
    /\ debounce_buffer # EmptyBuffer
    /\ fwd_pending' = BufferEntries(debounce_buffer)
    /\ debounce_buffer' = EmptyBuffer
    /\ last_flush' = [win |-> win,
                      out |-> { [path |-> e.path, kind |-> e.kind] :
                                  e \in BufferEntries(debounce_buffer) }]
    /\ win' = EmptyWindow
    /\ UNCHANGED <<cb_pending, debounce_q, central_q, handled, ev_count, ev_done>>
    /\ UNCHANGED <<extVars, cfgVars, startVars, clsVars, batVars>>

\* one turn of the loop over events_to_process (a HashMap, so in any order):
\* tx_clone.send((path, kind)).await returns once the central channel has room
DebounceForward ==
    \E e \in fwd_pending :
        /\ Len(central_q) < CentralCap
        /\ central_q' = Append(central_q, e)
        /\ fwd_pending' = fwd_pending \ {e}
        /\ last_flush' = IF fwd_pending = {e} THEN NoFlush ELSE last_flush
        /\ UNCHANGED <<cb_pending, debounce_q, debounce_buffer, handled,
                       ev_count, win, ev_done>>
        /\ UNCHANGED <<extVars, cfgVars, startVars, clsVars, batVars>>

\* the central handler receives one record, simplifies its kind and gives it
\* to process_file_event
CentralRecv ==
    /\ central_q # <<>>
    /\ \E chk \in Checks(Head(central_q).kind) :
            /\ handled' = handled \cup
                             {[path |-> Head(central_q).path,
                               kind |-> SimplifiedKind(Head(central_q).kind, chk)]}
            /\ ev_done' = ev_done \cup Head(central_q).evs
            /\ central_q' = Tail(central_q)
            /\ UNCHANGED <<cb_pending, debounce_q, debounce_buffer, fwd_pending,
                           ev_count, win, last_flush>>
            /\ UNCHANGED <<extVars, cfgVars, startVars, clsVars, batVars>>

InitDebounce == CfgInit /\ StartIdle /\ DebInit /\ ClsIdle /\ BatIdle /\ ExtIdle

NextDebounce ==
    \/ NativeEvent
    \/ CallbackSend
    \/ DebounceRecv
    \/ DebounceTick
    \/ DebounceForward
    \/ CentralRecv

SpecDebounce == InitDebounce /\ [][NextDebounce]_vars

\* the watcher thread, the debounce task and the central handler are each
\* scheduled again and again: a send that has room, a receive that has a
\* message and a tick that is due are eventually taken (these steps change
\* nothing but the debouncer's variables)
SpecDebounceFair ==
    /\ SpecDebounce
    /\ WF_debVars(CallbackSend)
    /\ WF_debVars(DebounceRecv)
    /\ WF_debVars(DebounceTick)
    /\ WF_debVars(DebounceForward)
    /\ WF_debVars(CentralRecv)

(***************************************************************************)
(* The batch processor: FileMonitor::batch_processor                       *)
(***************************************************************************)

\* batch_size; 50 in FileMonitor::new, scaled down
BatchSize == 2

\* batch_interval in time units; 5 s in FileMonitor::new, scaled down
BatchInterval == 2

\* bound on the clock
MaxTime == 3

\* bound on the records one batch processor receives
MaxRecv == 3

\* the FileMetadata fields the batch processor looks at.  is_os_bundle is an
\* Option<bool>; excluded says whether extra_metadata holds excluded_by_rule_id
MkMeta(name, ext, dir, hidden, bundle, excluded) ==
    [file_name |-> name, extension |-> ext, is_dir |-> dir, is_hidden |-> hidden,
     is_os_bundle |-> bundle, excluded |-> excluded]

\* the records that reach the metadata channel, from whatever producer
MetaShapes ==
    { MkMeta(<<"Report", ".", "PDF">>, <<"PDF">>, FALSE, FALSE, "Some(false)", FALSE),
      MkMeta(<<"notes", ".", "txt">>, <<"txt">>, FALSE, FALSE, "None", FALSE),
      MkMeta(<<"notes">>, None, FALSE, FALSE, "None", FALSE),
      MkMeta(<<".", "report", ".", "pdf">>, <<"pdf">>, FALSE, TRUE, "None", FALSE),
      MkMeta(<<"Info", ".", "pdf">>, <<"pdf">>, FALSE, FALSE, "Some(true)", FALSE),
      MkMeta(<<"draft", ".", "pdf">>, <<"pdf">>, FALSE, FALSE, "None", TRUE),
      MkMeta(<<"x", ".", "DS_Store", ".", "pdf">>, <<"pdf">>, FALSE, FALSE, "None", FALSE),
      MkMeta(<<"folder">>, None, TRUE, FALSE, "None", FALSE) }

\* the configurations a batch processor runs under
BatchConfigs ==
    { MkConfig(<<DirDocs>>, TRUE, exts, <<>>) :
        exts \in { <<>>, <<ExtMap(<<"PDF">>, 1)>> } }

\* valid_extensions of the batch processor: the lower-cased extensions of the
\* cached extension map, empty when no configuration is cached
ValidExtensions(cfg) ==
    IF cfg.is_some
    THEN { ToLower(cfg.file_extension_maps[i].extension) :
             i \in DOMAIN cfg.file_extension_maps }
    ELSE {}

BatchFilterKeepExcluded(meta, cfg) ==
    IF meta.is_hidden THEN "hidden"
    ELSE IF meta.is_os_bundle = "Some(true)" THEN "bundle"
    ELSE IF /\ ~meta.is_dir
            /\ ValidExtensions(cfg) # {}
            /\ \/ meta.extension = None
               \/ ToLower(meta.extension) \notin ValidExtensions(cfg)
         THEN "extension"
    ELSE IF Contains(meta.file_name, <<".", "DS_Store">>) THEN "ds_store"
    ELSE IF meta.is_dir THEN "directory"
    ELSE "accept"

\* the checks between rx.recv() and batch.push, in the order of the code: the
\* name of the first one that skips the record, "accept" when none does
BatchFilter(meta, cfg) ==
    IF meta.is_hidden THEN "hidden"
    ELSE IF meta.is_os_bundle = "Some(true)" THEN "bundle"
    ELSE IF meta.excluded THEN "excluded"
    ELSE IF /\ ~meta.is_dir
            /\ ValidExtensions(cfg) # {}
            /\ \/ meta.extension = None
               \/ ToLower(meta.extension) \notin ValidExtensions(cfg)
         THEN "extension"
    ELSE IF Contains(meta.file_name, <<".", "DS_Store">>) THEN "ds_store"
    ELSE IF meta.is_dir THEN "directory"
    ELSE "accept"

\* BatchProcessorStats at the start of the task
ZeroBatchStats ==
    [received_files |-> 0, hidden_files_skipped |-> 0,
     rule_excluded_files_skipped |-> 0, invalid_extension_skipped |-> 0,
     ds_store_skipped |-> 0, directory_skipped |-> 0, bundle_skipped |-> 0,
     processed_files |-> 0]

\* counters that leave a skipped directory out
CountRecordMissesDirectory(st, outcome) ==
    LET r == [st EXCEPT !.received_files = @ + 1]
    IN  CASE outcome = "hidden" -> [r EXCEPT !.hidden_files_skipped = @ + 1]
          [] outcome = "bundle" -> [r EXCEPT !.bundle_skipped = @ + 1]
          [] outcome = "excluded" -> [r EXCEPT !.rule_excluded_files_skipped = @ + 1]
          [] outcome = "extension" -> [r EXCEPT !.invalid_extension_skipped = @ + 1]
          [] outcome = "ds_store" -> [r EXCEPT !.ds_store_skipped = @ + 1]
          [] outcome = "directory" -> r
          [] OTHER -> [r EXCEPT !.processed_files = @ + 1]

\* the counters one received record increments
CountRecord(st, outcome) ==
    LET r == [st EXCEPT !.received_files = @ + 1]
    IN  CASE outcome = "hidden" -> [r EXCEPT !.hidden_files_skipped = @ + 1]
          [] outcome = "bundle" -> [r EXCEPT !.bundle_skipped = @ + 1]
          [] outcome = "excluded" -> [r EXCEPT !.rule_excluded_files_skipped = @ + 1]
          [] outcome = "extension" -> [r EXCEPT !.invalid_extension_skipped = @ + 1]
          [] outcome = "ds_store" -> [r EXCEPT !.ds_store_skipped = @ + 1]
          [] outcome = "directory" -> [r EXCEPT !.directory_skipped = @ + 1]
          [] OTHER -> [r EXCEPT !.processed_files = @ + 1]

AfterFlushKeepOnError(buf, ok) == IF ok THEN <<>> ELSE buf

\* batch.clear() after send_batch_metadata_to_api, whatever it returned
AfterFlush(buf, ok) == <<>>

\* the configuration fetched by the startup, which spawns the batch processor
\* after its first successful fetch
CfgLoaded(resp) ==
    LET r == ClassifyFolders(resp.monitored_folders, resp.full_disk_access, 1,
                             [bl |-> <<>>, au |-> <<>>])
    IN  /\ config_cache = resp
        /\ blacklist_dirs = r.bl
        /\ monitored_dirs = r.au
        /\ fetch_ok = 1
        /\ cfg_last = [op |-> "fetch", ok |-> TRUE]

\* the locals of batch_processor before its loop; now is the clock and
\* sleep_start the time the pending sleep(batch_interval) was created
BatInit ==
    /\ batch = <<>>
    /\ last_send = 0
    /\ now = 0
    /\ sleep_start = 0
    /\ b_stats = ZeroBatchStats
    /\ dispatched = <<>>
    /\ bp_running = TRUE
    /\ recv_count = 0
    /\ batch_since = 0

\* select! arm rx.recv() with Some(metadata): the record is counted, filtered
\* and pushed; a full batch is sent and cleared.  The loop then starts a new
\* select! and with it a new sleep(batch_interval).
BatchRecv ==
    \E shape \in MetaShapes, ok \in BOOLEAN :
        LET meta == [id |-> recv_count + 1, meta |-> shape]
            outcome == BatchFilter(shape, config_cache)
            pushed == Append(batch, meta)
        IN  /\ bp_running
            /\ recv_count < MaxRecv
            /\ recv_count' = recv_count + 1
            /\ b_stats' = CountRecord(b_stats, outcome)
            /\ IF outcome # "accept"
               THEN /\ ok
                    /\ UNCHANGED <<batch, last_send, dispatched, batch_since>>
               ELSE IF Len(pushed) >= BatchSize
               THEN /\ dispatched' = Append(dispatched, [records |-> pushed, ok |-> ok])
                    /\ batch' = AfterFlush(pushed, ok)
                    /\ last_send' = now
                    /\ batch_since' = IF batch' = <<>> THEN 0 ELSE batch_since
               ELSE /\ ok
                    /\ batch' = pushed
                    /\ batch_since' = IF batch = <<>> THEN now ELSE batch_since
                    /\ UNCHANGED <<last_send, dispatched>>
            /\ sleep_start' = now
            /\ UNCHANGED <<now, bp_running>>
            /\ UNCHANGED <<extVars, cfgVars, startVars, debVars, clsVars>>

\* select! arm sleep(batch_interval): the sleep created at the start of this
\* turn of the loop has run out
BatchTimerFire ==
    \E ok \in BOOLEAN :
        /\ bp_running
        /\ now - sleep_start >= BatchInterval
        /\ IF batch # <<>> /\ now - last_send >= BatchInterval
           THEN /\ dispatched' = Append(dispatched, [records |-> batch, ok |-> ok])
                /\ batch' = AfterFlush(batch, ok)
                /\ last_send' = now
                /\ batch_since' = IF batch' = <<>> THEN 0 ELSE batch_since
           ELSE /\ ok
                /\ UNCHANGED <<batch, last_send, dispatched, batch_since>>
        /\ sleep_start' = now
        /\ UNCHANGED <<now, b_stats, bp_running, recv_count>>
        /\ UNCHANGED <<extVars, cfgVars, startVars, debVars, clsVars>>

\* select! arm rx.recv() with None: every sender is gone; what is left is
\* sent and the task returns
BatchClosed ==
    \E ok \in BOOLEAN :
        /\ bp_running
        /\ IF batch # <<>>
           THEN /\ dispatched' = Append(dispatched, [records |-> batch, ok |-> ok])
                /\ batch' = AfterFlush(batch, ok)
                /\ batch_since' = IF batch' = <<>> THEN 0 ELSE batch_since
           ELSE /\ ok
                /\ UNCHANGED <<batch, dispatched, batch_since>>
        /\ bp_running' = FALSE
        /\ UNCHANGED <<last_send, now, sleep_start, b_stats, recv_count>>
        /\ UNCHANGED <<extVars, cfgVars, startVars, debVars, clsVars>>

\* one unit of time passes for the running task; the task is woken by its
\* sleep the moment the sleep runs out, so time does not pass that moment
TimePasses ==
    /\ bp_running
    /\ now < MaxTime
    /\ now - sleep_start < BatchInterval
    /\ now' = now + 1
    /\ UNCHANGED <<batch, last_send, sleep_start, b_stats, dispatched,
                   bp_running, recv_count, batch_since>>
    /\ UNCHANGED <<extVars, cfgVars, startVars, debVars, clsVars>>

\* a configuration refresh while the batch processor runs
BatchCfgRefresh ==
    \E resp \in BatchConfigs :
        /\ fetch_ok < MaxFetches
        /\ FetchOk(resp)
        /\ UNCHANGED <<extVars, startVars, debVars, clsVars, batVars>>

InitBatch ==
    /\ \E resp \in BatchConfigs : CfgLoaded(resp)
    /\ StartIdle /\ DebIdle /\ ClsIdle /\ BatInit /\ ExtIdle

NextBatch ==
    \/ BatchRecv
    \/ BatchTimerFire
    \/ BatchClosed
    \/ TimePasses
    \/ BatchCfgRefresh

SpecBatch == InitBatch /\ [][NextBatch]_vars

(***************************************************************************)
(* Classification of one path: FileMonitor::process_file_event             *)
(***************************************************************************)

Root == <<"/", "data", "/", "docs">>

PathReport   == Root \o <<"/", "report", ".", "pdf">>
PathDraft    == Root \o <<"/", "draft", ".", "pdf">>
PathText     == Root \o <<"/", "report", ".", "txt">>
PathNotes    == Root \o <<"/", "notes">>
PathHidDir   == Root \o <<"/", ".", "hid", "/", "report", ".", "pdf">>
PathHidName  == Root \o <<"/", ".", "report", ".", "pdf">>
PathHidRaw   == Root \o <<"/", ".", "hid", "xFF", "/", "report", ".", "pdf">>
\* /data/docs2/report.pdf; the name docs2 is two tokens, so that the string
\* /data/docs is a prefix of the path as it is for str::starts_with
PathSibling  == <<"/", "data", "/", "docs", "2", "/", "report", ".", "pdf">>
PathPlist    == Root \o <<"/", "Project", ".", "app", "/", "Contents", "/", "Info", ".", "plist">>
PathApp      == Root \o <<"/", "Project", ".", "app">>
PathPrivate  == Root \o <<"/", "private", "/", "report", ".", "pdf">>
PathLink     == Root \o <<"/", "link", "/", "report", ".", "pdf">>
PathPlugin   == Root \o <<"/", "Tool", ".", "plugin">>
PathPlistUpper ==
    Root \o <<"/", "Project", ".", "APP", "/", "Contents", "/", "Info", ".", "plist">>
PathAppPdf   == Root \o <<"/", "Project", ".", "app", "/", "Contents", "/", "report", ".", "pdf">>

\* the paths given to process_file_event
ClsPaths ==
    { PathReport, PathDraft, PathText, PathNotes, PathHidDir, PathHidName,
      PathHidRaw, PathSibling, PathPlist, PathApp, PathPrivate, PathLink }

\* what a path is on disk: a regular file, a directory, a directory with
\* Contents/Info.plist, a directory with more than five dot files, or nothing
FsKinds == {"file", "dir", "bundle_dir", "dotty_dir", "missing"}

IsDir(fs) == fs \in {"dir", "bundle_dir", "dotty_dir"}

\* std::fs::canonicalize: link is a symbolic link to the private directory
CanonicalOf(p) == IF p = PathLink THEN PathPrivate ELSE p

\* FileFilterRuleRust; category_id 0 stands for None, pattern matching of a
\* regex is that of a literal, regex_ok says whether Regex::new accepts it
MkRule(i, n, en, rt, pt, pat, rok, act, cat) ==
    [id |-> i, name |-> n, enabled |-> en, rule_type |-> rt, pattern_type |-> pt,
     pattern |-> pat, regex_ok |-> rok, action |-> act, category_id |-> cat]

RuleCatalog ==
    << MkRule(1, <<"exclude-draft">>, TRUE, "Filename", "keyword", <<"Draft">>, TRUE, "Exclude", 0),
       MkRule(2, <<"tag-pdf">>, TRUE, "Extension", "keyword", <<"PDF">>, TRUE, "Tag", 2),
       MkRule(3, <<"off">>, FALSE, "Filename", "keyword", <<"report">>, TRUE, "Exclude", 0),
       MkRule(4, <<"bad-regex">>, TRUE, "Filename", "regex", <<"report">>, FALSE, "Exclude", 0) >>

\* the configurations process_file_event runs under
ClsConfigs ==
    { MkConfig(<<DirDocs>>, FALSE, <<ExtMap(<<"pdf">>, 1)>>, <<>>),
      MkConfig(<<DirDocs, DirPrivate>>, FALSE,
               <<ExtMap(<<"pdf">>, 1), ExtMap(<<"txt">>, 2)>>, RuleCatalog),
      MkConfig(<<DirPics>>, TRUE, <<>>, <<>>) }

\* the configurations the pipeline runs under
PipeConfigs ==
    { MkConfig(<<DirDocs>>, FALSE, <<ExtMap(<<"pdf">>, 1)>>, <<>>),
      MkConfig(<<DirDocs>>, FALSE, <<ExtMap(<<"pdf">>, 1), ExtMap(<<"plist">>, 2)>>, <<>>),
      MkConfig(<<DirDocs>>, FALSE, <<ExtMap(<<"pdf">>, 1)>>, <<RuleCatalog[1]>>) }

\* FileMetadata; category_id 0 stands for None, excluded_by_rule_id 0 for an
\* extra_metadata without that key
MkFileMetadata(p, fs) ==
    [is_some |-> TRUE,
     file_path |-> p,
     file_name |-> FileName(p),
     extension |-> IF IsDir(fs) THEN None ELSE extract_extension(p),
     is_dir |-> IsDir(fs),
     is_hidden |-> is_hidden_file(p),
     is_os_bundle |-> is_macos_bundle_folder(p, fs),
     category_id |-> 0,
     tags |-> <<>>,
     initial_rule_matches |-> <<>>,
     excluded_by_rule_id |-> 0]

\* FileMonitor::get_file_metadata: None when fs::metadata fails or the file
\* name or the path is not UTF-8
get_file_metadata(p, fs) ==
    IF fs = "missing" THEN [is_some |-> FALSE]
    ELSE IF FileName(p) = None \/ ~IsUtf8(FileName(p)) THEN [is_some |-> FALSE]
    ELSE IF ~IsUtf8(p) THEN [is_some |-> FALSE]
    ELSE MkFileMetadata(p, fs)

\* FileMonitor::is_in_blacklist without the comparison of the canonical path
\* (a variant)
is_in_blacklist_RawOnly(p, fs, dirs) ==
    \E i \in DOMAIN dirs :
        LET trimmed == TrimEndSlash(dirs[i].path)
            blacklist_path == trimmed \o <<"/">>
            path_str == ToStringLossy(p)
        IN  \/ StartsWith(path_str, blacklist_path)
            \/ path_str = trimmed

\* FileMonitor::is_in_blacklist for the blacklist dirs
is_in_blacklist(p, fs, dirs) ==
    \E i \in DOMAIN dirs :
        LET trimmed == TrimEndSlash(dirs[i].path)
            blacklist_path == trimmed \o <<"/">>
            path_str == ToStringLossy(p)
            canonical_str == ToStringLossy(CanonicalOf(p))
        IN  \/ StartsWith(path_str, blacklist_path)
            \/ path_str = trimmed
            \/ /\ fs # "missing"
               /\ \/ StartsWith(canonical_str, blacklist_path)
                  \/ canonical_str = trimmed

\* belongs_to_monitored_dir of process_file_event
BelongsToMonitored(p, dirs) ==
    \E i \in DOMAIN dirs : StartsWith(ToStringLossy(p), dirs[i].path)

\* the category of the first entry of the extension map whose extension
\* equals ext, 0 when there is none
RECURSIVE FirstExtCategory(_, _, _)
FirstExtCategory(maps, ext, i) ==
    IF i > Len(maps) THEN 0
    ELSE IF maps[i].extension = ext THEN maps[i].category_id
    ELSE FirstExtCategory(maps, ext, i + 1)

\* matched_this_rule of apply_initial_rules
RuleMatches(rule, filename, ext) ==
    CASE rule.rule_type = "Filename" ->
             IF rule.pattern_type = "keyword"
             THEN Contains(filename, ToLower(rule.pattern))
             ELSE rule.pattern_type = "regex" /\ rule.regex_ok
                  /\ Contains(filename, rule.pattern)
      [] rule.rule_type = "OSBundle" ->
             rule.pattern_type = "regex" /\ rule.regex_ok
             /\ Contains(filename, rule.pattern)
      [] rule.rule_type = "Extension" ->
             /\ ext # None
             /\ IF rule.pattern_type = "keyword" /\ ToLower(ext) = ToLower(rule.pattern)
                THEN TRUE
                ELSE rule.pattern_type = "regex" /\ rule.regex_ok
                     /\ Contains(ext, rule.pattern)
      [] OTHER -> FALSE

\* a loop that does not look at rule.enabled
ApplyRuleIgnoresEnabled(acc, rule) ==
    IF ~RuleMatches(rule, ToLower(acc.meta.file_name), acc.meta.extension) THEN acc
    ELSE LET m0 == acc.meta
             m1 == IF rule.rule_type = "OSBundle"
                   THEN [m0 EXCEPT !.excluded_by_rule_id = rule.id] ELSE m0
             m2 == [m1 EXCEPT !.initial_rule_matches = Append(@, rule.name)]
             m3 == CASE rule.action = "Tag" ->
                           IF \E k \in DOMAIN m2.tags : m2.tags[k] = rule.name
                           THEN m2
                           ELSE [m2 EXCEPT !.tags = Append(@, rule.name)]
                     [] rule.action = "Exclude" ->
                           [m2 EXCEPT !.excluded_by_rule_id = rule.id]
                     [] OTHER -> m2
             m4 == IF rule.category_id # 0
                   THEN [m3 EXCEPT !.category_id = rule.category_id] ELSE m3
         IN  [meta |-> m4,
              filtered |-> acc.filtered + (IF rule.action = "Exclude" THEN 1 ELSE 0)]

\* one turn of the loop over config.file_filter_rules; acc.filtered counts
\* the increments of stats.filtered_files
ApplyRule(acc, rule) ==
    IF ~rule.enabled THEN acc
    ELSE IF ~RuleMatches(rule, ToLower(acc.meta.file_name), acc.meta.extension) THEN acc
    ELSE LET m0 == acc.meta
             m1 == IF rule.rule_type = "OSBundle"
                   THEN [m0 EXCEPT !.excluded_by_rule_id = rule.id] ELSE m0
             m2 == [m1 EXCEPT !.initial_rule_matches = Append(@, rule.name)]
             m3 == CASE rule.action = "Tag" ->
                           IF \E k \in DOMAIN m2.tags : m2.tags[k] = rule.name
                           THEN m2
                           ELSE [m2 EXCEPT !.tags = Append(@, rule.name)]
                     [] rule.action = "Exclude" ->
                           [m2 EXCEPT !.excluded_by_rule_id = rule.id]
                     [] OTHER -> m2
             m4 == IF rule.category_id # 0
                   THEN [m3 EXCEPT !.category_id = rule.category_id] ELSE m3
         IN  [meta |-> m4,
              filtered |-> acc.filtered + (IF rule.action = "Exclude" THEN 1 ELSE 0)]

RECURSIVE ApplyRules(_, _, _)
ApplyRules(acc, rules, i) ==
    IF i > Len(rules) THEN acc
    ELSE ApplyRules(ApplyRule(acc, rules[i]), rules, i + 1)

\* FileMonitor::apply_initial_rules with a configuration in the cache: the
\* metadata it leaves and the increments of stats.filtered_files
\* apply_initial_rules without the lookup in the extension map (a variant)
apply_initial_rules_NoCategory(meta, cfg) ==
    LET m0 == IF meta.is_hidden THEN [meta EXCEPT !.excluded_by_rule_id = 9999] ELSE meta
    IN  ApplyRules([meta |-> m0, filtered |-> 0], cfg.file_filter_rules, 1)

apply_initial_rules(meta, cfg) ==
    LET m0 == IF meta.is_hidden THEN [meta EXCEPT !.excluded_by_rule_id = 9999] ELSE meta
        m1 == IF m0.extension = None THEN m0
              ELSE [m0 EXCEPT
                      !.category_id =
                          FirstExtCategory(cfg.file_extension_maps, m0.extension, 1),
                      !.tags = Append(@, <<"ext:">> \o m0.extension)]
    IN  ApplyRules([meta |-> m1, filtered |-> 0], cfg.file_filter_rules, 1)

\* MonitorStats of FileMonitor::new
ZeroStats ==
    [processed_files |-> 0, filtered_files |-> 0, filtered_bundles |-> 0,
     error_count |-> 0]

\* process_file_event is called with a path and a kind; what the path is on
\* disk does not change during the call
ClsInitFrom(paths) ==
    /\ c_path \in paths
    /\ c_kind \in {"Create", "Remove"}
    /\ c_fs \in FsKinds
    /\ c_pc = "start"
    /\ c_meta = [is_some |-> FALSE]
    /\ c_result = [is_some |-> FALSE, reason |-> "running"]
    /\ c_reads = {}
    /\ c_rules_ran = FALSE
    /\ c_hashed = FALSE
    /\ stats = ZeroStats

ClsInit == ClsInitFrom(ClsPaths)

\* return None, for the reason given
ClsReject(reason) ==
    /\ c_pc' = "done"
    /\ c_result' = [is_some |-> FALSE, reason |-> reason]

\* a read of configuration state under one of the locks
ClsRead(lock) ==
    c_reads' = c_reads \cup {[lock |-> lock, cfg |-> config_cache]}

\* the start of process_file_event: a removal is only logged; otherwise the
\* monitored set is read under its lock and the path must start with the path
\* of one of its directories
ClsCheckMonitored ==
    /\ c_pc = "start"
    /\ IF c_kind = "Remove"
       THEN /\ ClsReject("removed")
            /\ UNCHANGED c_reads
       ELSE /\ ClsRead("monitored_dirs")
            /\ IF BelongsToMonitored(c_path, monitored_dirs)
               THEN c_pc' = "cache" /\ UNCHANGED c_result
               ELSE ClsReject("not_monitored")
    /\ UNCHANGED <<c_path, c_kind, c_fs, c_meta, c_rules_ran, c_hashed, stats>>
    /\ UNCHANGED <<extVars, cfgVars, startVars, debVars, batVars>>

\* the configuration cache is locked to see whether it is populated; when it
\* is not, fetch_and_store_all_config is awaited (NoConfig stands for its Err)
ClsCheckCache ==
    /\ c_pc = "cache"
    /\ IF config_cache.is_some
       THEN /\ c_pc' = "path"
            /\ UNCHANGED <<cfgVars, c_result>>
       ELSE \E resp \in ClsConfigs \cup {NoConfig} :
              IF resp.is_some
              THEN FetchOk(resp) /\ c_pc' = "path" /\ UNCHANGED c_result
              ELSE FetchErr /\ ClsReject("no_config")
    /\ UNCHANGED <<c_path, c_kind, c_fs, c_meta, c_reads, c_rules_ran, c_hashed,
                   stats>>
    /\ UNCHANGED <<extVars, startVars, debVars, batVars>>

\* the extension whitelist of process_file_event, read under the lock of the
\* configuration cache: "pass", or the reason to ignore the file
WhitelistCheck(p, cfg) ==
    IF ValidExtensions(cfg) = {} THEN "pass"
    ELSE IF extract_extension(p) = None THEN "no_extension"
    ELSE IF ToLower(extract_extension(p)) \in ValidExtensions(cfg) THEN "pass"
    ELSE "extension"

\* the checks from path.exists() to the dot-file count: existence, hidden
\* segment, extension whitelist (files only), bundle folder, inside a bundle,
\* bundle marks of a directory
\* the path checks of process_file_event without the two bundle checks (a
\* variant)
PathCheck_NoBundle(p, fs, cfg) ==
    IF fs = "missing" THEN "missing"
    ELSE IF is_hidden_file(p) THEN "hidden"
    ELSE IF fs = "file" /\ WhitelistCheck(p, cfg) # "pass" THEN WhitelistCheck(p, cfg)
    ELSE IF IsDir(fs) /\ TargetMacos /\ fs = "bundle_dir" THEN "bundle_plist"
    ELSE IF IsDir(fs) /\ TargetMacos /\ fs = "dotty_dir" THEN "bundle_dotfiles"
    ELSE "pass"

PathCheck(p, fs, cfg) ==
    IF fs = "missing" THEN "missing"
    ELSE IF is_hidden_file(p) THEN "hidden"
    ELSE IF fs = "file" /\ WhitelistCheck(p, cfg) # "pass" THEN WhitelistCheck(p, cfg)
    ELSE IF is_macos_bundle_folder(p, fs) THEN "bundle"
    ELSE IF is_inside_macos_bundle(p) THEN "inside_bundle"
    ELSE IF IsDir(fs) /\ TargetMacos /\ fs = "bundle_dir" THEN "bundle_plist"
    ELSE IF IsDir(fs) /\ TargetMacos /\ fs = "dotty_dir" THEN "bundle_dotfiles"
    ELSE "pass"

\* the stats counter a rejection of PathCheck increments
PathCheckStats(st, reason) ==
    CASE reason \in {"extension", "no_extension", "inside_bundle"} ->
             [st EXCEPT !.filtered_files = @ + 1]
      [] reason \in {"bundle", "bundle_plist", "bundle_dotfiles"} ->
             [st EXCEPT !.filtered_bundles = @ + 1]
      [] OTHER -> st

\* The functions of a path that the steps below use, tabulated over the
\* paths, file kinds, configurations and blacklists of the specifications
KnownPaths == ClsPaths \cup {Root, PathPlugin, PathPlistUpper, PathAppPdf}

KnownConfigs == ClsConfigs \cup PipeConfigs

KnownBlacklists ==
    {<<>>} \cup
    { ClassifyFolders(cfg.monitored_folders, cfg.full_disk_access, 1,
                      [bl |-> <<>>, au |-> <<>>]).bl : cfg \in KnownConfigs }

is_hidden_file_of == [p \in KnownPaths |-> is_hidden_file(p)]

PathCheck_of ==
    [p \in KnownPaths, fs \in FsKinds, cfg \in KnownConfigs |-> PathCheck(p, fs, cfg)]

is_in_blacklist_of ==
    [p \in KnownPaths, fs \in FsKinds, dirs \in KnownBlacklists |->
        is_in_blacklist(p, fs, dirs)]

get_file_metadata_of ==
    [p \in KnownPaths, fs \in FsKinds |-> get_file_metadata(p, fs)]

\* the checks of the path itself; the configuration cache is locked once, for
\* the whitelist, when the path exists, is not hidden and is a file
ClsCheckPath ==
    /\ c_pc = "path"
    /\ LET reason == PathCheck_of[c_path, c_fs, config_cache]
       IN  /\ IF c_fs = "file" /\ ~is_hidden_file_of[c_path]
              THEN ClsRead("whitelist")
              ELSE UNCHANGED c_reads
           /\ IF reason = "pass"
              THEN c_pc' = "blacklist" /\ UNCHANGED c_result
              ELSE ClsReject(reason)
           /\ stats' = PathCheckStats(stats, reason)
    /\ UNCHANGED <<c_path, c_kind, c_fs, c_meta, c_rules_ran, c_hashed>>
    /\ UNCHANGED <<extVars, cfgVars, startVars, debVars, batVars>>

\* is_in_blacklist under the lock of the blacklist set, then
\* get_file_metadata and, for a file, calculate_simple_hash
ClsCheckBlacklist ==
    /\ c_pc = "blacklist"
    /\ ClsRead("blacklist_dirs")
    /\ IF is_in_blacklist_of[c_path, c_fs, blacklist_dirs]
       THEN /\ ClsReject("blacklist")
            /\ stats' = [stats EXCEPT !.filtered_files = @ + 1]
            /\ UNCHANGED <<c_meta, c_hashed>>
       ELSE IF ~get_file_metadata_of[c_path, c_fs].is_some
       THEN /\ ClsReject("no_metadata")
            /\ UNCHANGED <<c_meta, c_hashed, stats>>
       ELSE /\ c_meta' = get_file_metadata_of[c_path, c_fs]
            /\ c_hashed' = ~IsDir(c_fs)
            /\ c_pc' = "rules"
            /\ UNCHANGED <<c_result, stats>>
    /\ UNCHANGED <<c_path, c_kind, c_fs, c_rules_ran>>
    /\ UNCHANGED <<extVars, cfgVars, startVars, debVars, batVars>>

\* process_file_event without the test of the exclusion mark
ClsApplyRulesKeepExcluded ==
    /\ c_pc = "rules"
    /\ ClsRead("rules")
    /\ IF config_cache.is_some
       THEN LET r == apply_initial_rules(c_meta, config_cache)
            IN  /\ c_meta' = r.meta
                /\ stats' = [stats EXCEPT !.processed_files = @ + 1,
                                          !.filtered_files = @ + r.filtered]
                /\ c_rules_ran' = TRUE
                /\ c_result' = r.meta
       ELSE /\ c_result' = c_meta
            /\ UNCHANGED <<c_meta, stats, c_rules_ran>>
    /\ c_pc' = "done"
    /\ UNCHANGED <<c_path, c_kind, c_fs, c_hashed>>
    /\ UNCHANGED <<extVars, cfgVars, startVars, debVars, batVars>>

\* apply_initial_rules under the lock of the configuration cache, and the
\* test of the exclusion mark after it
ClsApplyRules ==
    /\ c_pc = "rules"
    /\ ClsRead("rules")
    /\ IF config_cache.is_some
       THEN LET r == apply_initial_rules(c_meta, config_cache)
            IN  /\ c_meta' = r.meta
                /\ stats' = [stats EXCEPT !.processed_files = @ + 1,
                                          !.filtered_files = @ + r.filtered]
                /\ c_rules_ran' = TRUE
                /\ c_result' = IF r.meta.excluded_by_rule_id # 0
                               THEN [is_some |-> FALSE, reason |-> "excluded"]
                               ELSE r.meta
       ELSE /\ c_result' = c_meta
            /\ UNCHANGED <<c_meta, stats, c_rules_ran>>
    /\ c_pc' = "done"
    /\ UNCHANGED <<c_path, c_kind, c_fs, c_hashed>>
    /\ UNCHANGED <<extVars, cfgVars, startVars, debVars, batVars>>

\* a configuration refresh in another task while the path is classified
ClsRefresh ==
    \E resp \in ClsConfigs :
        /\ c_pc # "done"
        /\ fetch_ok < MaxFetches
        /\ FetchOk(resp)
        /\ UNCHANGED <<extVars, startVars, debVars, clsVars, batVars>>

InitClassify ==
    /\ CfgInit \/ \E resp \in ClsConfigs : CfgLoaded(resp)
    /\ StartIdle /\ DebIdle /\ ClsInit /\ BatIdle /\ ExtIdle

NextClassify ==
    \/ ClsCheckMonitored
    \/ ClsCheckCache
    \/ ClsCheckPath
    \/ ClsCheckBlacklist
    \/ ClsApplyRules
    \/ ClsRefresh

SpecClassify == InitClassify /\ [][NextClassify]_vars

(***************************************************************************)
(* The bundle-extension cache: update_bundle_cache, is_bundle_cache_expired,*)
(* get_cached_bundle_extensions, refresh_bundle_extensions and             *)
(* ensure_bundle_cache_valid, beside one process_file_event                *)
(***************************************************************************)

\* the cache lifetime, Duration::from_secs(3600), in clock steps
BundleTtl == 2

\* the clock readings of a run
MaxWall == 4

\* FileMonitor::get_fallback_bundle_extensions
get_fallback_bundle_extensions ==
    << <<".", "app">>, <<".", "bundle">>, <<".", "framework">>,
       <<".", "fcpbundle">>, <<".", "photoslibrary">>, <<".", "imovielibrary">>,
       <<".", "tvlibrary">>, <<".", "theater">>, <<".", "plugin">>,
       <<".", "component">>, <<".", "colorSync">>, <<".", "mdimporter">>,
       <<".", "qlgenerator">>, <<".", "saver">>, <<".", "service">>,
       <<".", "wdgt">>, <<".", "xpc">> >>

\* the lists GET /bundle-extensions/for-rust answers with
ApiBundleLists ==
    { <<>>, << <<".", "app">>, <<".", "plugin">> >> }

\* FileMonitor::is_bundle_cache_expired with >= for > (a variant)
is_bundle_cache_expired_AtTtl(ts, t) ==
    IF ts.is_some
    THEN IF t >= ts.at THEN t - ts.at >= BundleTtl ELSE TRUE
    ELSE TRUE

\* FileMonitor::is_bundle_cache_expired; duration_since fails when the clock
\* is behind the timestamp
is_bundle_cache_expired(ts, t) ==
    IF ts.is_some
    THEN IF t >= ts.at THEN t - ts.at > BundleTtl ELSE TRUE
    ELSE TRUE

\* FileMonitor::get_cached_bundle_extensions
get_cached_bundle_extensions(cache, ts, t) ==
    IF cache.is_some
    THEN IF ~is_bundle_cache_expired(ts, t)
         THEN cache.list
         ELSE get_fallback_bundle_extensions
    ELSE get_fallback_bundle_extensions

\* FileMonitor::update_bundle_cache
update_bundle_cache(extensions) ==
    /\ bundle_extensions_cache' = [is_some |-> TRUE, list |-> extensions]
    /\ bundle_cache_timestamp' = [is_some |-> TRUE, at |-> wall]

\* FileMonitor::is_macos_bundle_folder_dynamic: the checks of
\* is_macos_bundle_folder with the list of ensure_bundle_cache_valid
is_macos_bundle_folder_dynamic(p, fs, exts) ==
    IF p = <<>> THEN FALSE
    ELSE \/ /\ FileName(p) # None
            /\ IsUtf8(FileName(p))
            /\ \E i \in 1..Len(exts) : EndsWith(ToLower(FileName(p)), exts[i])
         \/ /\ IsUtf8(p)
            /\ \E j \in 1..Len(SplitSlash(p)) :
                 \E i \in 1..Len(exts) : EndsWith(ToLower(SplitSlash(p)[j]), exts[i])
         \/ fs = "bundle_dir" /\ TargetMacos

\* the paths process_file_event is given beside the bundle cache
BunPaths == { PathPlugin, PathApp, PathReport }

BunInit ==
    /\ bundle_extensions_cache = [is_some |-> FALSE]
    /\ bundle_cache_timestamp = [is_some |-> FALSE]
    /\ wall = 0
    /\ e_pc = "idle"
    /\ e_refresh = "none"
    /\ e_result = [is_some |-> FALSE]

\* ensure_bundle_cache_valid: the test of is_bundle_cache_expired
EnsureStart ==
    /\ e_pc = "idle"
    /\ e_pc' = IF is_bundle_cache_expired(bundle_cache_timestamp, wall)
               THEN "refresh" ELSE "get"
    /\ UNCHANGED <<bundle_extensions_cache, bundle_cache_timestamp, wall,
                   e_refresh, e_result>>
    /\ UNCHANGED bunRest

\* ensure_bundle_cache_valid: refresh_bundle_extensions answers Ok
EnsureRefreshOk ==
    /\ e_pc = "refresh"
    /\ \E extensions \in ApiBundleLists : update_bundle_cache(extensions)
    /\ e_refresh' = "ok"
    /\ e_pc' = "get"
    /\ UNCHANGED <<wall, e_result>>
    /\ UNCHANGED bunRest

\* ensure_bundle_cache_valid: refresh_bundle_extensions answers Err
EnsureRefreshErr ==
    /\ e_pc = "refresh"
    /\ e_refresh' = "err"
    /\ e_pc' = "get"
    /\ UNCHANGED <<bundle_extensions_cache, bundle_cache_timestamp, wall, e_result>>
    /\ UNCHANGED bunRest

\* ensure_bundle_cache_valid: the value of get_cached_bundle_extensions
EnsureGet ==
    /\ e_pc = "get"
    /\ e_result' = [is_some |-> TRUE,
                    list |-> get_cached_bundle_extensions(bundle_extensions_cache,
                                                          bundle_cache_timestamp, wall)]
    /\ e_pc' = "done"
    /\ UNCHANGED <<bundle_extensions_cache, bundle_cache_timestamp, wall, e_refresh>>
    /\ UNCHANGED bunRest

\* the next call of ensure_bundle_cache_valid
EnsureAgain ==
    /\ e_pc = "done"
    /\ e_pc' = "idle"
    /\ e_refresh' = "none"
    /\ e_result' = [is_some |-> FALSE]
    /\ UNCHANGED <<bundle_extensions_cache, bundle_cache_timestamp, wall>>
    /\ UNCHANGED bunRest

\* refresh_bundle_extensions called by refresh_all_configurations on another
\* task, answering Ok
RefreshBundleExtensions ==
    /\ \E extensions \in ApiBundleLists : update_bundle_cache(extensions)
    /\ UNCHANGED <<wall, e_pc, e_refresh, e_result>>
    /\ UNCHANGED bunRest

\* the system clock advances
ClockStep ==
    /\ wall < MaxWall
    /\ wall' = wall + 1
    /\ UNCHANGED <<bundle_extensions_cache, bundle_cache_timestamp, e_pc,
                   e_refresh, e_result>>
    /\ UNCHANGED bunRest

\* the system clock is set back
ClockBack ==
    /\ wall > 0
    /\ wall' = wall - 1
    /\ UNCHANGED <<bundle_extensions_cache, bundle_cache_timestamp, e_pc,
                   e_refresh, e_result>>
    /\ UNCHANGED bunRest

InitBundle ==
    /\ CfgInit \/ \E resp \in ClsConfigs : CfgLoaded(resp)
    /\ StartIdle /\ DebIdle /\ ClsInitFrom(BunPaths) /\ BatIdle /\ BunInit
    /\ PipIdle /\ NewIdle

NextBundle ==
    \/ EnsureStart
    \/ EnsureRefreshOk
    \/ EnsureRefreshErr
    \/ EnsureGet
    \/ EnsureAgain
    \/ RefreshBundleExtensions
    \/ ClockStep
    \/ ClockBack
    \/ ClsCheckMonitored
    \/ ClsCheckCache
    \/ ClsCheckPath
    \/ ClsCheckBlacklist
    \/ ClsApplyRules

SpecBundle == InitBundle /\ [][NextBundle]_vars

(***************************************************************************)
(* One metadata channel end to end: the producers (perform_initial_scan or *)
(* scan_single_directory, and the central handler of the debounced         *)
(* monitor), process_file_event, and batch_processor.  The producers call  *)
(* process_file_event one at a time here; the batch processor runs beside  *)
(* them.                                                                   *)
(***************************************************************************)

\* capacity of the metadata channel (100 in the code)
MetaCap == 1

Entry(p, fs) == [path |-> p, fs |-> fs]

\* what WalkDir finds below /data/docs, in the order of the walk
ScanTrees ==
    { << Entry(Root, "dir"), Entry(PathApp, "bundle_dir"), Entry(PathPlist, "file"),
         Entry(PathAppPdf, "file"), Entry(PathReport, "file") >>,
      << Entry(Root, "dir"), Entry(PathReport, "file"), Entry(PathText, "file") >>,
      << Entry(Root, "dir"), Entry(PathDraft, "file"), Entry(PathReport, "file") >>,
      << Entry(Root, "dir") >> }

LiveEv(p, kind, fs) == [path |-> p, kind |-> kind, fs |-> fs]

\* what the debounce tasks forward to the central handler
LiveLists ==
    { <<>>,
      << LiveEv(PathReport, "Create", "file") >>,
      << LiveEv(PathPlist, "Create", "file"), LiveEv(PathReport, "Create", "file") >>,
      << LiveEv(PathPlistUpper, "Create", "file") >>,
      << LiveEv(PathDraft, "Create", "file") >>,
      << LiveEv(PathAppPdf, "Create", "file"), LiveEv(PathReport, "Remove", "missing") >> }

\* should_scan of perform_initial_scan
ShouldScan(dir, fda) ==
    IF fda THEN ~dir.is_blacklist
    ELSE dir.auth_status = "Authorized" /\ ~dir.is_blacklist

\* the closure given to filter_entry by perform_initial_scan: "walk", or why
\* the entry and what is below it are left out
InitialScanFilter(p, fs, cfg, blacklist) ==
    IF is_hidden_file(p) THEN "hidden"
    ELSE IF is_in_blacklist(p, fs, blacklist) THEN "blacklist"
    ELSE IF is_macos_bundle_folder(p, fs) THEN "bundle"
    ELSE IF is_inside_macos_bundle(p) THEN "inside_bundle"
    ELSE IF IsDir(fs) /\ TargetMacos /\ fs = "bundle_dir" THEN "bundle_plist"
    ELSE IF fs = "file" /\ WhitelistCheck(p, cfg) # "pass" THEN "extension"
    ELSE "walk"

\* the closure given to filter_entry by scan_single_directory
SingleScanFilter(p, fs) ==
    IF is_hidden_file(p) THEN "hidden"
    ELSE IF is_macos_bundle_folder(p, fs) THEN "bundle"
    ELSE IF is_inside_macos_bundle(p) THEN "inside_bundle"
    ELSE "walk"

InitialScanFilter_of ==
    [p \in KnownPaths, fs \in FsKinds, cfg \in KnownConfigs, dirs \in KnownBlacklists |->
        InitialScanFilter(p, fs, cfg, dirs)]

SingleScanFilter_of == [p \in KnownPaths, fs \in FsKinds |-> SingleScanFilter(p, fs)]

\* skipped_bundles as the closures count it
CountSkippedBundle(counts, mode, p, why) ==
    IF \/ mode = "single" /\ why = "bundle"
       \/ mode = "monitor" /\ why = "bundle_plist"
       \/ /\ mode = "monitor" /\ why = "bundle"
          /\ Len(SelectSeq(ToStringLossy(p), LAMBDA t : t = "/")) <= 1
    THEN [counts EXCEPT !.bundles = @ + 1]
    ELSE counts

\* the entries of todo that are not below the directory p
NotBelow(todo, p) ==
    SelectSeq(todo, LAMBDA e : ~StartsWith(e.path, p \o <<"/">>))

\* the FileMetadata fields the batch processor looks at
ToBatchShape(fm) ==
    MkMeta(fm.file_name, fm.extension, fm.is_dir, fm.is_hidden,
           IF fm.is_os_bundle THEN "Some(true)" ELSE "Some(false)",
           fm.excluded_by_rule_id # 0)

\* process_file_event is entered with a path and a kind
PipeCall(p, kind, fs) ==
    /\ c_path' = p
    /\ c_kind' = kind
    /\ c_fs' = fs
    /\ c_pc' = "start"
    /\ c_meta' = [is_some |-> FALSE]
    /\ c_result' = [is_some |-> FALSE, reason |-> "running"]
    /\ c_reads' = {}
    /\ c_rules_ran' = FALSE
    /\ c_hashed' = FALSE
    /\ UNCHANGED stats

PipInit ==
    /\ p_mode \in {"monitor", "single"}
    /\ p_api_up \in BOOLEAN
    /\ tx_holders = IF p_mode = "monitor" THEN {"self", "batch", "scan"} ELSE {"scan"}
    /\ metadata_q = <<>>
    /\ scan_todo \in ScanTrees
    /\ scan_counts = [processed |-> 0, skipped |-> 0, bundles |-> 0]
    /\ live_todo \in (IF p_mode = "monitor" THEN LiveLists ELSE {<<>>})
    /\ p_src = "none"
    /\ p_sent = <<>>

\* the walk of perform_initial_scan or scan_single_directory comes to its
\* next entry: the filter may leave it and what is below it out, the single
\* scan passes over directories, and else process_file_event is called
ScanNext ==
    /\ p_src = "none"
    /\ "scan" \in tx_holders
    /\ scan_todo # <<>>
    /\ LET e == Head(scan_todo)
           why == IF p_mode = "monitor"
                  THEN InitialScanFilter_of[e.path, e.fs, config_cache, blacklist_dirs]
                  ELSE SingleScanFilter_of[e.path, e.fs]
       IN  IF why # "walk"
           THEN /\ scan_todo' = NotBelow(Tail(scan_todo), e.path)
                /\ scan_counts' = CountSkippedBundle(scan_counts, p_mode, e.path, why)
                /\ UNCHANGED <<clsVars, p_src>>
           ELSE IF p_mode = "single" /\ e.fs # "file"
           THEN /\ scan_todo' = Tail(scan_todo)
                /\ UNCHANGED <<clsVars, p_src, scan_counts>>
           ELSE /\ scan_todo' = Tail(scan_todo)
                /\ PipeCall(e.path, "Create", e.fs)
                /\ p_src' = "scan"
                /\ UNCHANGED scan_counts
    /\ UNCHANGED <<p_mode, p_api_up, tx_holders, metadata_q, live_todo, p_sent>>
    /\ UNCHANGED <<batVars, pipRest>>

\* the scan is over: its counters are added to the statistics and its Sender
\* is dropped
ScanEnd ==
    /\ p_src = "none"
    /\ "scan" \in tx_holders
    /\ scan_todo = <<>>
    /\ stats' = [stats EXCEPT !.processed_files = @ + scan_counts.processed,
                              !.filtered_files = @ + scan_counts.skipped,
                              !.filtered_bundles = @ + scan_counts.bundles]
    /\ tx_holders' = tx_holders \ {"scan"}
    /\ UNCHANGED <<c_path, c_kind, c_fs, c_pc, c_meta, c_result, c_reads,
                   c_rules_ran, c_hashed>>
    /\ UNCHANGED <<p_mode, p_api_up, metadata_q, scan_todo, scan_counts, live_todo,
                   p_src, p_sent>>
    /\ UNCHANGED <<batVars, pipRest>>

\* the central handler receives a record and calls process_file_event with
\* the simplified kind
LiveNext ==
    /\ p_src = "none"
    /\ live_todo # <<>>
    /\ LET ev == Head(live_todo)
           chk == IF ev.fs = "file" THEN "file" ELSE "nofile"
       IN  PipeCall(ev.path,
                    IF SimplifiedKind(ev.kind, chk) = "Added" THEN "Create" ELSE "Remove",
                    ev.fs)
    /\ live_todo' = Tail(live_todo)
    /\ p_src' = "live"
    /\ UNCHANGED <<p_mode, p_api_up, tx_holders, metadata_q, scan_todo, scan_counts,
                   p_sent>>
    /\ UNCHANGED <<batVars, pipRest>>

\* process_file_event has returned: Some(metadata) is sent on the channel,
\* waiting for room; the central handler takes the Sender from
\* get_metadata_sender
PipeDeliver ==
    /\ p_src # "none"
    /\ c_pc = "done"
    /\ IF c_result.is_some /\ (p_src = "scan" \/ "self" \in tx_holders)
       THEN /\ Len(metadata_q) < MetaCap
            /\ LET rec == [id |-> Len(p_sent) + 1, meta |-> ToBatchShape(c_result),
                           path |-> c_result.file_path,
                           category_id |-> c_result.category_id, src |-> p_src]
               IN  /\ metadata_q' = Append(metadata_q, rec)
                   /\ p_sent' = Append(p_sent, rec)
            /\ scan_counts' = IF p_src = "scan"
                              THEN [scan_counts EXCEPT !.processed = @ + 1]
                              ELSE scan_counts
       ELSE /\ scan_counts' = IF p_src = "scan" /\ ~c_result.is_some
                              THEN [scan_counts EXCEPT !.skipped = @ + 1]
                              ELSE scan_counts
            /\ UNCHANGED <<metadata_q, p_sent>>
    /\ p_src' = "none"
    /\ c_pc' = "idle"
    /\ UNCHANGED <<c_path, c_kind, c_fs, c_meta, c_result, c_reads, c_rules_ran,
                   c_hashed, stats>>
    /\ UNCHANGED <<p_mode, p_api_up, tx_holders, scan_todo, live_todo>>
    /\ UNCHANGED <<batVars, pipRest>>

\* the FileMonitor kept by the application and the clones its monitors hold
\* are dropped
MonitorDrop ==
    /\ p_src = "none"
    /\ live_todo = <<>>
    /\ "self" \in tx_holders
    /\ tx_holders' = tx_holders \ {"self"}
    /\ UNCHANGED <<p_mode, p_api_up, metadata_q, scan_todo, scan_counts, live_todo,
                   p_src, p_sent>>
    /\ UNCHANGED <<clsVars, batVars, pipRest>>

\* batch_processor, select! arm rx.recv() with Some(metadata) taken from the
\* channel
PipeBatchRecv ==
    /\ bp_running
    /\ metadata_q # <<>>
    /\ LET rec == Head(metadata_q)
           outcome == BatchFilter(rec.meta, config_cache)
           pushed == Append(batch, rec)
       IN  /\ b_stats' = CountRecord(b_stats, outcome)
           /\ IF outcome # "accept"
              THEN UNCHANGED <<batch, last_send, dispatched, batch_since>>
              ELSE IF Len(pushed) >= BatchSize
              THEN /\ dispatched' = Append(dispatched,
                                           [records |-> pushed, ok |-> p_api_up])
                   /\ batch' = AfterFlush(pushed, p_api_up)
                   /\ last_send' = now
                   /\ batch_since' = 0
              ELSE /\ batch' = pushed
                   /\ batch_since' = IF batch = <<>> THEN now ELSE batch_since
                   /\ UNCHANGED <<last_send, dispatched>>
    /\ metadata_q' = Tail(metadata_q)
    /\ recv_count' = recv_count + 1
    /\ sleep_start' = now
    /\ UNCHANGED <<now, bp_running>>
    /\ UNCHANGED <<p_mode, p_api_up, tx_holders, scan_todo, scan_counts, live_todo,
                   p_src, p_sent>>
    /\ UNCHANGED <<clsVars, pipRest>>

\* batch_processor, select! arm sleep(batch_interval)
PipeTimerFire ==
    /\ bp_running
    /\ now - sleep_start >= BatchInterval
    /\ IF batch # <<>> /\ now - last_send >= BatchInterval
       THEN /\ dispatched' = Append(dispatched, [records |-> batch, ok |-> p_api_up])
            /\ batch' = AfterFlush(batch, p_api_up)
            /\ last_send' = now
            /\ batch_since' = 0
       ELSE UNCHANGED <<batch, last_send, dispatched, batch_since>>
    /\ sleep_start' = now
    /\ UNCHANGED <<now, b_stats, bp_running, recv_count>>
    /\ UNCHANGED <<clsVars, pipVars, pipRest>>

\* rx.recv() answers None once the channel is empty and no Sender is left
ChannelClosed == metadata_q = <<>> /\ tx_holders = {}

\* batch_processor, select! arm rx.recv() with None: what is left is sent
\* and the task returns
PipeBatchClosed ==
    /\ bp_running
    /\ ChannelClosed
    /\ IF batch # <<>>
       THEN /\ dispatched' = Append(dispatched, [records |-> batch, ok |-> p_api_up])
            /\ batch' = AfterFlush(batch, p_api_up)
            /\ batch_since' = 0
       ELSE UNCHANGED <<batch, dispatched, batch_since>>
    /\ bp_running' = FALSE
    /\ UNCHANGED <<last_send, now, sleep_start, b_stats, recv_count>>
    /\ UNCHANGED <<clsVars, pipVars, pipRest>>

\* time passes while the batch processor sleeps on a buffer that holds
\* something
PipeTimePasses ==
    /\ bp_running
    /\ batch # <<>>
    /\ now - sleep_start < BatchInterval
    /\ now' = now + 1
    /\ UNCHANGED <<batch, last_send, sleep_start, b_stats, dispatched,
                   bp_running, recv_count, batch_since>>
    /\ UNCHANGED <<clsVars, pipVars, pipRest>>

InitPipeline ==
    /\ \E resp \in PipeConfigs : CfgLoaded(resp)
    /\ StartIdle /\ DebIdle /\ ClsIdle /\ BatInit /\ BunIdle /\ PipInit
    /\ NewIdle

NextPipeline ==
    \/ ScanNext
    \/ ScanEnd
    \/ LiveNext
    \/ ClsCheckMonitored
    \/ ClsCheckCache
    \/ ClsCheckPath
    \/ ClsCheckBlacklist
    \/ ClsApplyRules
    \/ PipeDeliver
    \/ MonitorDrop
    \/ PipeBatchRecv
    \/ PipeTimerFire
    \/ PipeBatchClosed
    \/ PipeTimePasses

SpecPipeline == InitPipeline /\ [][NextPipeline]_vars

\* every step but the drop of the FileMonitor, which nothing forces
PipeProgress ==
    \/ ScanNext
    \/ ScanEnd
    \/ LiveNext
    \/ ClsCheckMonitored
    \/ ClsCheckCache
    \/ ClsCheckPath
    \/ ClsCheckBlacklist
    \/ ClsApplyRules
    \/ PipeDeliver
    \/ PipeBatchRecv
    \/ PipeTimerFire
    \/ PipeBatchClosed
    \/ PipeTimePasses

\* the tasks and the timer keep running: a step that can be taken is taken
SpecPipelineFair == SpecPipeline /\ WF_vars(PipeProgress)

(***************************************************************************)
(* One raw event of the native watcher on its way to process_file_event:   *)
(* the watcher callback computes processed_kind, the record waits in the   *)
(* debouncer, the central handler computes simplified_kind.  The path may  *)
(* change on disk in between.                                              *)
(***************************************************************************)

\* notify::EventKind as far as the two matches tell kinds apart
NormRawKinds == RawKinds \cup {"RenameFrom", "RenameTo", "RenameBoth", "Access"}

\* what a path can be on disk
NormFs == {"file", "dir", "missing"}

\* path.exists() && path.is_file()
ExistsAndIsFile(fs) == IF fs = "file" THEN "file" ELSE "nofile"

NormInit ==
    /\ n_pc = "raw"
    /\ n_raw \in NormRawKinds
    /\ n_path \in DebPaths
    /\ n_fs \in NormFs
    /\ n_norm_fs = "none"
    /\ n_kind = "none"
    /\ n_final = "none"

\* the callback of the watcher: processed_kind, then the send to the debouncer
NormCallback ==
    /\ n_pc = "raw"
    /\ n_kind' = ProcessedKind(n_raw, ExistsAndIsFile(n_fs))
    /\ n_norm_fs' = n_fs
    /\ n_pc' = "queued"
    /\ UNCHANGED <<n_raw, n_path, n_fs, n_final>>
    /\ UNCHANGED normRest

\* something else creates, replaces or removes the path
NormFsChange ==
    /\ n_pc \in {"raw", "queued"}
    /\ \E fs \in NormFs \ {n_fs} : n_fs' = fs
    /\ UNCHANGED <<n_pc, n_raw, n_path, n_norm_fs, n_kind, n_final>>
    /\ UNCHANGED normRest

\* the central handler: simplified_kind, given to process_file_event
NormCentral ==
    /\ n_pc = "queued"
    /\ n_final' = SimplifiedKind(n_kind, ExistsAndIsFile(n_fs))
    /\ n_pc' = "done"
    /\ UNCHANGED <<n_raw, n_path, n_fs, n_norm_fs, n_kind>>
    /\ UNCHANGED normRest

InitNormalize ==
    /\ CfgInit /\ StartIdle /\ DebIdle /\ ClsIdle /\ BatIdle /\ BunIdle /\ PipIdle
    /\ NormInit /\ WatIdle /\ GateIdle /\ MoreIdle

NextNormalize ==
    \/ NormCallback
    \/ NormFsChange
    \/ NormCentral

SpecNormalize == InitNormalize /\ [][NextNormalize]_vars

(***************************************************************************)
(* The native watches: every call of setup_single_debounced_watch starts a *)
(* thread that owns one recursive watcher and keeps it in a loop without   *)
(* exit.  The commands below are taken as one step each, with every watch  *)
(* set up successfully.                                                    *)
(***************************************************************************)

\* bound on the watcher threads of one directory
MaxWatchesPerDir == 2

\* bound on the configuration fetches of one run
MaxWatchFetches == 3

\* /data/docs turned into a blacklist folder
DirDocsBlack == MkDir(1, DirDocs.path, TRUE, "Authorized")

\* the answers of GET /config/all while the watches are followed
WatchResponses ==
    { MkConfig(fl, fda, <<ExtMap(<<"pdf">>, 1)>>, <<>>) :
        fl \in {<<DirDocs>>, <<DirDocs, DirPics>>, <<DirPics>>,
                <<DirDocsBlack, DirPics>>},
        fda \in BOOLEAN }

\* the loop of start_monitoring over directories: one more watcher thread
\* for every entry
AddWatches(w, dirs) ==
    [d \in WatchPaths |->
        w[d] + Cardinality({i \in 1..Len(dirs) : dirs[i] = d})]

WatchesFit(w) == \A d \in WatchPaths : w[d] <= MaxWatchesPerDir

\* FileMonitor::get_monitored_dirs, called by restart_file_monitoring and
\* not part of the source: the paths of the monitored directories
get_monitored_dirs(dirs) == PathsOf(dirs)

\* DebouncedFileMonitor::stop_monitoring_path, called by
\* stop_monitoring_directory and not part of the source; by the contract the
\* watch handle of the directory is dropped
stop_monitoring_path(w, path) ==
    IF path \in WatchPaths THEN [w EXCEPT ![path] = 0] ELSE w

\* setup_auto_file_monitoring, Ok arm: the configuration is fetched, a new
\* DebouncedFileMonitor watches the monitored directories and is moved into
\* AppState after start_monitoring has set its event_tx
WSetupAuto ==
    \E resp \in WatchResponses :
        /\ ~app_file_monitor
        /\ app_deb = "none"
        /\ fetch_ok < MaxWatchFetches
        /\ FetchOk(resp)
        /\ native_watches' = AddWatches(native_watches, PathsOf(monitored_dirs'))
        /\ WatchesFit(native_watches')
        /\ app_file_monitor' = TRUE
        /\ app_deb' = "tx"
        /\ UNCHANGED <<w_backend, forwarded>>
        /\ UNCHANGED watRest

\* start_backend_scanning up to its tokio::spawn: refresh_all_configurations
\* and the test for an empty list
WBackendScanStart ==
    \E resp \in WatchResponses :
        /\ app_file_monitor
        /\ w_backend = "idle"
        /\ fetch_ok + 1 < MaxWatchFetches
        /\ FetchOk(resp)
        /\ w_backend' = IF monitored_dirs' = <<>> THEN "idle" ELSE "spawned"
        /\ UNCHANGED <<native_watches, app_file_monitor, app_deb, forwarded>>
        /\ UNCHANGED watRest

\* the task spawned by start_backend_scanning:
\* start_monitoring_setup_and_initial_scan, then start_monitoring on a clone
\* of the DebouncedFileMonitor of AppState
WBackendScanTask ==
    \E resp \in WatchResponses :
        /\ w_backend = "spawned"
        /\ FetchOk(resp)
        /\ native_watches' =
              IF app_deb # "none"
              THEN AddWatches(native_watches, PathsOf(monitored_dirs'))
              ELSE native_watches
        /\ WatchesFit(native_watches')
        /\ w_backend' = "idle"
        /\ UNCHANGED <<app_file_monitor, app_deb, forwarded>>
        /\ UNCHANGED watRest

\* restart_file_monitoring: the configuration is fetched again, a new
\* DebouncedFileMonitor is cloned into AppState before start_monitoring sets
\* event_tx on the original, which then watches the monitored directories
WRestart ==
    \E resp \in WatchResponses :
        /\ app_file_monitor
        /\ fetch_ok < MaxWatchFetches
        /\ FetchOk(resp)
        /\ app_deb' = "no_tx"
        /\ native_watches' = AddWatches(native_watches,
                                        get_monitored_dirs(monitored_dirs'))
        /\ WatchesFit(native_watches')
        /\ UNCHANGED <<app_file_monitor, w_backend, forwarded>>
        /\ UNCHANGED watRest

\* scan_directory(path): update_monitored_directories (an error is logged),
\* scan_single_directory, then add_directory_to_watch on the
\* DebouncedFileMonitor of AppState, which fails without event_tx.  Without a
\* FileMonitor in AppState one is started and stored first, and there is no
\* DebouncedFileMonitor to add a watch to.
WScanDirectory ==
    \E path \in WatchPaths, resp \in WatchResponses \cup {NoConfig} :
        /\ IF resp = NoConfig
           THEN app_file_monitor /\ FetchErr
           ELSE fetch_ok < MaxWatchFetches /\ FetchOk(resp)
        /\ app_file_monitor' = TRUE
        /\ native_watches' =
              IF app_deb = "tx"
              THEN [native_watches EXCEPT ![path] = @ + 1]
              ELSE native_watches
        /\ WatchesFit(native_watches')
        /\ UNCHANGED <<app_deb, w_backend, forwarded>>
        /\ UNCHANGED watRest

\* fetch_and_store_all_config on behalf of refresh_folder_configuration
WRefresh ==
    \E resp \in WatchResponses :
        /\ app_file_monitor
        /\ fetch_ok < MaxWatchFetches
        /\ FetchOk(resp)
        /\ UNCHANGED watVars
        /\ UNCHANGED watRest

\* the command stop_monitoring_directory(directory_id)
WStopMonitoringDirectory ==
    \E id \in {DirDocs.id, DirPics.id} :
        LET index == PositionOfId(monitored_dirs, id)
        IN  /\ app_file_monitor
            /\ StopMonitoringDirectory(id)
            /\ native_watches' =
                  IF index # 0 /\ app_deb # "none"
                  THEN stop_monitoring_path(native_watches,
                                            monitored_dirs[index].path)
                  ELSE native_watches
            /\ UNCHANGED <<app_file_monitor, app_deb, w_backend, forwarded>>
            /\ UNCHANGED watRest

\* the paths of the monitored set
MonitoredPaths == Range(PathsOf(monitored_dirs))

\* a watcher thread reports an event below its directory; callback, debounce
\* task and central handler bring it to process_file_event
WatchReports ==
    \E d \in WatchPaths :
        /\ native_watches[d] > 0
        /\ forwarded' = forwarded \cup
                          {[dir |-> d, monitored |-> d \in MonitoredPaths]}
        /\ UNCHANGED <<native_watches, app_file_monitor, app_deb, w_backend>>
        /\ UNCHANGED <<cfgVars, watRest>>

InitWatch ==
    /\ CfgInit /\ StartIdle /\ DebIdle /\ ClsIdle /\ BatIdle /\ BunIdle /\ PipIdle
    /\ NormIdle /\ WatIdle /\ GateIdle /\ MoreIdle

NextWatch ==
    \/ WSetupAuto
    \/ WBackendScanStart
    \/ WBackendScanTask
    \/ WRestart
    \/ WScanDirectory
    \/ WRefresh
    \/ WStopMonitoringDirectory
    \/ WatchReports

SpecWatch == InitWatch /\ [][NextWatch]_vars

\* the watcher threads and the spawned task keep running
SpecWatchFair ==
    SpecWatch /\ WF_vars(WatchReports) /\ WF_vars(WBackendScanTask)

(***************************************************************************)
(* The configuration-change queue of AppState: changes wait in             *)
(* pending_config_changes until initial_scan_completed is set.  The        *)
(* listener task spawned by setup_auto_file_monitoring polls               *)
(* MonitorStats.processed_files; the initial scan runs beside it at its    *)
(* own speed.  Time is counted in check intervals of the listener.         *)
(***************************************************************************)

\* files the initial scan has to walk
MaxScanFiles == 2

\* max_wait_time of the listener, in check intervals (60 s in the code)
MaxWaitTicks == 3

\* the sleep between checkpoint and comparison, in check intervals (3 s in
\* the code)
StableTicks == 1

\* configuration changes the front end sends in one run
MaxChanges == 2

\* setup_auto_file_monitoring has started the FileMonitor (the initial scan
\* is spawned) and has spawned the listener
GateInit ==
    /\ initial_scan_completed = FALSE
    /\ pending_config_changes = <<>>
    /\ g_scan = "running"
    /\ g_left \in 1..MaxScanFiles
    /\ g_scan_count = 0
    /\ g_processed = 0
    /\ g_pc = "sleep"
    /\ g_checkpoint = 0
    /\ g_elapsed = 0
    /\ g_stable_seen = FALSE
    /\ g_issued = {}
    /\ g_spawned = <<>>
    /\ g_exec = {}

\* process_pending_config_changes: the queue is taken and, when it holds
\* something, given to a spawned execute_config_changes
ProcessPending(pending, spawned) ==
    IF pending = <<>> THEN spawned ELSE Append(spawned, pending)

\* the initial scan comes to a file that process_file_event accepts:
\* apply_initial_rules counts it in the statistics, the walk counts it too
GScanFile ==
    /\ g_scan = "running"
    /\ g_left > 0
    /\ g_left' = g_left - 1
    /\ g_processed' = g_processed + 1
    /\ g_scan_count' = g_scan_count + 1
    /\ UNCHANGED <<initial_scan_completed, pending_config_changes, g_scan, g_pc,
                   g_checkpoint, g_elapsed, g_stable_seen, g_issued, g_spawned,
                   g_exec>>
    /\ UNCHANGED gateRest

\* the initial scan comes to an entry that is filtered out
GScanSkip ==
    /\ g_scan = "running"
    /\ g_left > 0
    /\ g_left' = g_left - 1
    /\ UNCHANGED <<initial_scan_completed, pending_config_changes, g_scan,
                   g_scan_count, g_processed, g_pc, g_checkpoint, g_elapsed,
                   g_stable_seen, g_issued, g_spawned, g_exec>>
    /\ UNCHANGED gateRest

\* the walk is over: stats.processed_files += processed_files
GScanEnd ==
    /\ g_scan = "running"
    /\ g_left = 0
    /\ g_scan' = "done"
    /\ g_processed' = g_processed + g_scan_count
    /\ UNCHANGED <<initial_scan_completed, pending_config_changes, g_left,
                   g_scan_count, g_pc, g_checkpoint, g_elapsed, g_stable_seen,
                   g_issued, g_spawned, g_exec>>
    /\ UNCHANGED gateRest

\* the listener wakes from sleep(check_interval): the timeout breaks the
\* loop, a counter above zero is taken as checkpoint
GListenerCheck ==
    /\ g_pc = "sleep"
    /\ g_elapsed' = g_elapsed + 1
    /\ IF g_elapsed' >= MaxWaitTicks
       THEN g_pc' = "set" /\ UNCHANGED g_checkpoint
       ELSE IF g_processed > 0
       THEN g_pc' = "confirm" /\ g_checkpoint' = g_processed
       ELSE g_pc' = "sleep" /\ UNCHANGED g_checkpoint
    /\ UNCHANGED <<initial_scan_completed, pending_config_changes, g_scan, g_left,
                   g_scan_count, g_processed, g_stable_seen, g_issued, g_spawned,
                   g_exec>>
    /\ UNCHANGED gateRest

\* the listener wakes from the sleep after the checkpoint and compares
GListenerConfirm ==
    /\ g_pc = "confirm"
    /\ g_elapsed' = g_elapsed + StableTicks
    /\ IF g_processed = g_checkpoint
       THEN g_pc' = "set" /\ g_stable_seen' = TRUE
       ELSE g_pc' = "sleep" /\ UNCHANGED g_stable_seen
    /\ UNCHANGED <<initial_scan_completed, pending_config_changes, g_scan, g_left,
                   g_scan_count, g_processed, g_checkpoint, g_issued, g_spawned,
                   g_exec>>
    /\ UNCHANGED gateRest

\* after the loop: AppState::set_initial_scan_completed(true)
GListenerSet ==
    /\ g_pc = "set"
    /\ initial_scan_completed' = TRUE
    /\ g_spawned' = ProcessPending(pending_config_changes, g_spawned)
    /\ pending_config_changes' = <<>>
    /\ g_pc' = "end"
    /\ UNCHANGED <<g_scan, g_left, g_scan_count, g_processed, g_checkpoint,
                   g_elapsed, g_stable_seen, g_issued, g_exec>>
    /\ UNCHANGED gateRest

\* a queue_* command: the change is pushed and, with the flag set, the queue
\* is processed at once
GQueueChange ==
    \E c \in (1..MaxChanges) \ g_issued :
        /\ g_issued' = g_issued \cup {c}
        /\ IF initial_scan_completed
           THEN /\ g_spawned' = ProcessPending(Append(pending_config_changes, c),
                                               g_spawned)
                /\ pending_config_changes' = <<>>
           ELSE /\ pending_config_changes' = Append(pending_config_changes, c)
                /\ UNCHANGED g_spawned
        /\ UNCHANGED <<initial_scan_completed, g_scan, g_left, g_scan_count,
                       g_processed, g_pc, g_checkpoint, g_elapsed, g_stable_seen,
                       g_exec>>
        /\ UNCHANGED gateRest

\* a spawned execute_config_changes carries out its changes
GExecute ==
    /\ g_spawned # <<>>
    /\ g_exec' = g_exec \cup
                   { [change |-> Head(g_spawned)[i], scanning |-> g_scan = "running"] :
                       i \in 1..Len(Head(g_spawned)) }
    /\ g_spawned' = Tail(g_spawned)
    /\ UNCHANGED <<initial_scan_completed, pending_config_changes, g_scan, g_left,
                   g_scan_count, g_processed, g_pc, g_checkpoint, g_elapsed,
                   g_stable_seen, g_issued>>
    /\ UNCHANGED gateRest

\* the task spawned by start_backend_scanning: the flag is cleared,
\* start_monitoring_setup_and_initial_scan spawns a new initial scan and
\* returns, the flag is set (followed while the counter is at most what one
\* scan can bring it to)
GBackendScan ==
    /\ g_scan = "done"
    /\ g_processed <= 2 * MaxScanFiles
    /\ \E n \in 1..MaxScanFiles : g_left' = n
    /\ g_scan' = "running"
    /\ g_scan_count' = 0
    /\ initial_scan_completed' = TRUE
    /\ UNCHANGED <<pending_config_changes, g_processed, g_pc, g_checkpoint,
                   g_elapsed, g_stable_seen, g_issued, g_spawned, g_exec>>
    /\ UNCHANGED gateRest

InitGate ==
    /\ CfgInit /\ StartIdle /\ DebIdle /\ ClsIdle /\ BatIdle /\ BunIdle /\ PipIdle
    /\ NormIdle /\ WatIdle /\ GateInit /\ MoreIdle

NextGate ==
    \/ GScanFile
    \/ GScanSkip
    \/ GScanEnd
    \/ GListenerCheck
    \/ GListenerConfirm
    \/ GListenerSet
    \/ GQueueChange
    \/ GExecute
    \/ GBackendScan

SpecGate == InitGate /\ [][NextGate]_vars

(***************************************************************************)
(* One call of FileMonitor::is_macos_bundle_folder, on the paths of its    *)
(* unit test (tests::test_macos_bundle_detection) and a few more           *)
(***************************************************************************)

Home == <<"/", "Users", "/", "test", "/">>

\* (path, expected_result) of test_paths, the directories shortened
TestPaths ==
    { <<Home \o <<"test", ".", "txt">>, FALSE>>,
      <<Home \o <<"App", ".", "app">>, TRUE>>,
      <<Home \o <<"MyProject", ".", "xcodeproj">>, TRUE>>,
      <<Home \o <<"MyMovie", ".", "fcpbundle">>, TRUE>>,
      <<Home \o <<"Presentation", ".", "key">>, TRUE>>,
      <<Home \o <<"Document", ".", "pages">>, TRUE>>,
      <<Home \o <<"Spreadsheet", ".", "numbers">>, TRUE>>,
      <<Home \o <<"MyFramework", ".", "framework">>, TRUE>>,
      <<Home \o <<"en", ".", "lproj">>, TRUE>>,
      <<Home \o <<"Preview", ".", "qlgenerator">>, TRUE>>,
      <<Home \o <<"TV", ".", "tvlibrary", "/", "Library", ".", "json">>, TRUE>>,
      <<Home \o <<"MyApp", ".", "app", "/", "Contents", "/", "Base", ".", "lproj",
                  "/", "Main", ".", "nib">>, TRUE>>,
      <<Home \o <<"normal_folder">>, FALSE>>,
      <<Home \o <<".", "hidden_file">>, FALSE>>,
      <<Home \o <<"app_data", ".", "json">>, FALSE>>,
      <<Home \o <<"framework_test">>, FALSE>> }

\* the paths is_macos_bundle_folder is called with: those of the test, an
\* upper-case suffix, the eighth suffix of the list, and the empty path
DetPaths ==
    { t[1] : t \in TestPaths }
        \cup { Home \o <<"App", ".", "APP">>, Home \o <<"Stage", ".", "theater">>, <<>> }

\* what the path is on disk; the paths of the unit test do not exist
DetFs == {"missing", "file", "dir", "bundle_dir"}

DetInit == \E p \in DetPaths, fs \in DetFs :
               det = [pc |-> "start", path |-> p, fs |-> fs, result |-> FALSE]

\* the call
DetectCall ==
    /\ det.pc = "start"
    /\ det' = [det EXCEPT !.pc = "done",
                          !.result = is_macos_bundle_folder(det.path, det.fs)]
    /\ UNCHANGED detRest

InitDetect == CfgInit /\ OldIdle /\ DetInit /\ CuIdle /\ LkIdle /\ MwIdle /\ RuIdle /\ SwIdle /\ EbIdle /\ CqIdle /\ LoIdle

NextDetect == DetectCall

SpecDetect == InitDetect /\ [][NextDetect]_vars

(***************************************************************************)
(* One task of AppState::execute_config_changes: the changes are carried   *)
(* out one after the other (execute_single_config_change, with             *)
(* cleanup_screening_data_for_path or scan_single_directory), then the     *)
(* configuration is refreshed                                              *)
(***************************************************************************)

\* bound on the changes one task is given
MaxChangeList == 2

\* max_retries of the DeleteFolder and AddBlacklist arms
MaxCleanupRetries == 3

\* max_retries of the refresh at the end of execute_config_changes
MaxRefreshRetries == 3

\* ConfigChangeRequest, as far as execute_single_config_change looks at it
ChangeKinds ==
    { [kind |-> "AddBlacklist", is_blacklist |-> TRUE],
      [kind |-> "DeleteFolder", is_blacklist |-> TRUE],
      [kind |-> "DeleteFolder", is_blacklist |-> FALSE],
      [kind |-> "ToggleFolder", is_blacklist |-> TRUE],
      [kind |-> "ToggleFolder", is_blacklist |-> FALSE],
      [kind |-> "AddWhitelist", is_blacklist |-> FALSE],
      [kind |-> "BundleExtensionChange", is_blacklist |-> FALSE] }

ChangeLists ==
    UNION { [1..n -> ChangeKinds] : n \in 1..MaxChangeList }

\* the answers of GET /config/all to the refresh
CleanupResponses ==
    { MkConfig(fl, FALSE, <<ExtMap(<<"pdf">>, 1)>>, <<>>) :
        fl \in {<<DirDocs>>, <<DirDocsBlack, DirPics>>} }

\* where execute_single_config_change goes first for a change
FirstStep(change) ==
    CASE change.kind = "DeleteFolder" ->
            IF change.is_blacklist THEN "cleanup" ELSE "finish"
      [] change.kind = "AddBlacklist" -> "cleanup"
      [] change.kind = "ToggleFolder" ->
            IF change.is_blacklist THEN "cleanup_once" ELSE "scan"
      [] change.kind = "AddWhitelist" -> "scan"
      [] OTHER -> "finish"

CuInit ==
    \E changes \in ChangeLists :
        cu = [pc |-> FirstStep(changes[1]), todo |-> changes, retry_count |-> 0,
              tries |-> <<>>, slept |-> <<>>, log |-> <<>>, refreshes |-> <<>>]

\* execute_single_config_change has returned for the change at the head of
\* c.todo: the result is noted (and pushed to failed_changes when it is an
\* Err), the task sleeps 200 ms and goes on with the next change, or with the
\* refresh
Finished(c, ok) ==
    LET rest == Tail(c.todo)
    IN  [c EXCEPT !.log = Append(@, [change |-> Head(c.todo), ok |-> ok,
                                     tries |-> c.tries, slept |-> c.slept]),
                  !.todo = rest,
                  !.retry_count = 0,
                  !.tries = <<>>,
                  !.slept = <<>>,
                  !.pc = IF rest = <<>> THEN "refresh" ELSE FirstStep(rest[1])]

\* one turn of while retry_count < max_retries in the DeleteFolder and
\* AddBlacklist arms: cleanup_screening_data_for_path is called; Ok breaks
\* out of the loop, Err counts, and the count decides between the sleep and
\* the return of Err
CleanupTry ==
    /\ cu.pc = "cleanup"
    /\ \E ok \in BOOLEAN :
          LET tried == [cu EXCEPT !.tries = Append(@, ok)]
              failed == [tried EXCEPT !.retry_count = @ + 1]
          IN  cu' = IF ok THEN Finished(tried, TRUE)
                    ELSE IF failed.retry_count < MaxCleanupRetries
                    THEN [failed EXCEPT !.pc = "backoff"]
                    ELSE Finished(failed, FALSE)
    /\ UNCHANGED <<cfgVars, cuRest>>

\* sleep(Duration::from_millis(500 * retry_count)), in units of 500 ms
CleanupBackoff ==
    /\ cu.pc = "backoff"
    /\ cu' = [cu EXCEPT !.slept = Append(@, cu.retry_count), !.pc = "cleanup"]
    /\ UNCHANGED <<cfgVars, cuRest>>

\* the ToggleFolder arm with is_blacklist:
\* cleanup_screening_data_for_path(folder_path, monitor).await?
CleanupOnce ==
    /\ cu.pc = "cleanup_once"
    /\ \E ok \in BOOLEAN :
          cu' = Finished([cu EXCEPT !.tries = Append(@, ok)], ok)
    /\ UNCHANGED <<cfgVars, cuRest>>

\* the ToggleFolder arm without is_blacklist and the AddWhitelist arm:
\* monitor.scan_single_directory(folder_path).await?
ChangeScan ==
    /\ cu.pc = "scan"
    /\ \E ok \in BOOLEAN : cu' = Finished(cu, ok)
    /\ UNCHANGED <<cfgVars, cuRest>>

\* DeleteFolder of a folder that is no blacklist folder, BundleExtensionChange
ChangeNothing ==
    /\ cu.pc = "finish"
    /\ cu' = Finished(cu, TRUE)
    /\ UNCHANGED <<cfgVars, cuRest>>

\* one turn of for retry in 1..=max_retries: refresh_all_configurations
\* fetches the configuration and the bundle extensions, and is Ok when both
\* went well
RefreshTry ==
    /\ cu.pc = "refresh"
    /\ \E fetched \in BOOLEAN, bundles \in BOOLEAN :
          LET ok == fetched /\ bundles
              n == Len(cu.refreshes) + 1
          IN  /\ IF fetched
                 THEN \E resp \in CleanupResponses : FetchOk(resp)
                 ELSE FetchErr
              /\ cu' = [cu EXCEPT !.refreshes = Append(@, ok),
                                  !.pc = IF ok \/ n = MaxRefreshRetries
                                         THEN "done" ELSE "refresh"]
    /\ UNCHANGED cuRest

InitCleanup == CfgInit /\ OldIdle /\ DetIdle /\ CuInit /\ LkIdle /\ MwIdle /\ RuIdle /\ SwIdle /\ EbIdle /\ CqIdle /\ LoIdle

NextCleanup ==
    \/ CleanupTry
    \/ CleanupBackoff
    \/ CleanupOnce
    \/ ChangeScan
    \/ ChangeNothing
    \/ RefreshTry

SpecCleanup == InitCleanup /\ [][NextCleanup]_vars

(***************************************************************************)
(* The Mutex of monitored_dirs and the Mutex of blacklist_dirs: one        *)
(* process_file_event (its monitored-set check and its is_in_blacklist)    *)
(* beside the task that calls fetch_and_store_all_config.  lk.io collects  *)
(* the file-system and network calls made, each with the locks its caller  *)
(* held at that moment.                                                    *)
(***************************************************************************)

\* bound on the successful fetches beside one process_file_event
MaxLockFetches == 2

LockPaths == {PathReport, PathPrivate, PathLink}

\* the locks of the two sets a task holds
HeldBy(l, who) ==
    (IF l.mon = who THEN {"monitored_dirs"} ELSE {})
        \cup (IF l.bl = who THEN {"blacklist_dirs"} ELSE {})

\* l after the task who has made the call
WithCall(l, who, call) ==
    [l EXCEPT !.io = @ \cup {[by |-> who, call |-> call, held |-> HeldBy(l, who)]}]

\* methods 1 and 2 of is_in_blacklist for one blacklist folder
BlacklistStringMatch(p, dir) ==
    LET trimmed == TrimEndSlash(dir.path)
    IN  \/ StartsWith(ToStringLossy(p), trimmed \o <<"/">>)
        \/ ToStringLossy(p) = trimmed

\* method 3 of is_in_blacklist for one blacklist folder, canonicalize
\* having answered Ok
BlacklistCanonicalMatch(p, dir) ==
    LET trimmed == TrimEndSlash(dir.path)
        canonical_str == ToStringLossy(CanonicalOf(p))
    IN  \/ StartsWith(canonical_str, trimmed \o <<"/">>)
        \/ canonical_str = trimmed

LkInit ==
    \E p \in LockPaths, fs \in {"file", "missing"} :
        lk = [mon |-> "none", bl |-> "none", c_pc |-> "start", c_path |-> p,
              c_fs |-> fs, c_i |-> 0, c_result |-> "none",
              r_pc |-> "idle", r_resp |-> NoConfig, io |-> {}]

\* process_file_event: let dirs = self.monitored_dirs.lock().unwrap()
LockMonitored ==
    /\ lk.c_pc = "start"
    /\ lk.mon = "none"
    /\ lk' = [lk EXCEPT !.mon = "cls", !.c_pc = "mon_held"]
    /\ UNCHANGED <<cfgVars, lkRest>>

\* dirs.iter().any(..) and the end of the block, which drops the guard
ReadMonitored ==
    /\ lk.c_pc = "mon_held"
    /\ lk' = [lk EXCEPT !.mon = "none",
                        !.c_pc = IF BelongsToMonitored(lk.c_path, monitored_dirs)
                                 THEN "exists" ELSE "done"]
    /\ UNCHANGED <<cfgVars, lkRest>>

\* path.exists() and the checks up to is_in_blacklist, which look at the disk
PathExists ==
    /\ lk.c_pc = "exists"
    /\ lk' = [WithCall(lk, "cls", "exists") EXCEPT
                 !.c_pc = IF lk.c_fs = "missing" THEN "done" ELSE "bl_lock"]
    /\ UNCHANGED <<cfgVars, lkRest>>

\* is_in_blacklist: let dirs = self.blacklist_dirs.lock().unwrap()
LockBlacklist ==
    /\ lk.c_pc = "bl_lock"
    /\ lk.bl = "none"
    /\ lk' = [lk EXCEPT !.bl = "cls", !.c_i = 1, !.c_pc = "bl_loop"]
    /\ UNCHANGED <<cfgVars, lkRest>>

\* one turn of for dir in dirs.iter(): methods 1 and 2; a return drops the
\* guard
BlacklistCompare ==
    /\ lk.c_pc = "bl_loop"
    /\ lk' = IF lk.c_i > Len(blacklist_dirs)
             THEN [lk EXCEPT !.bl = "none", !.c_result = "false", !.c_pc = "done"]
             ELSE IF BlacklistStringMatch(lk.c_path, blacklist_dirs[lk.c_i])
             THEN [lk EXCEPT !.bl = "none", !.c_result = "true", !.c_pc = "done"]
             ELSE [lk EXCEPT !.c_pc = "bl_canon"]
    /\ UNCHANGED <<cfgVars, lkRest>>

\* method 3 of the same turn: std::fs::canonicalize(path)
BlacklistCanonicalize ==
    /\ lk.c_pc = "bl_canon"
    /\ LET called == WithCall(lk, "cls", "canonicalize")
       IN  lk' = IF /\ lk.c_fs # "missing"
                    /\ BlacklistCanonicalMatch(lk.c_path, blacklist_dirs[lk.c_i])
                 THEN [called EXCEPT !.bl = "none", !.c_result = "true",
                                     !.c_pc = "done"]
                 ELSE [called EXCEPT !.c_i = @ + 1, !.c_pc = "bl_loop"]
    /\ UNCHANGED <<cfgVars, lkRest>>

\* fetch_and_store_all_config: the request and the parsing of the answer
FetchRequest ==
    /\ lk.r_pc = "idle"
    /\ fetch_ok < MaxLockFetches
    /\ \/ /\ lk' = WithCall(lk, "fetch", "get")
          /\ FetchErr
       \/ \E resp \in ClsConfigs :
             /\ lk' = [WithCall(lk, "fetch", "get") EXCEPT
                          !.r_resp = resp, !.r_pc = "parsed"]
             /\ UNCHANGED cfgVars
    /\ UNCHANGED lkRest

\* the Ok(config_data) arm: config_cache is locked and written, then
\* monitored_dirs is locked
FetchLockMonitored ==
    /\ lk.r_pc = "parsed"
    /\ lk.mon = "none"
    /\ lk' = [lk EXCEPT !.mon = "fetch", !.r_pc = "mon_held"]
    /\ UNCHANGED <<cfgVars, lkRest>>

\* blacklist_dirs is locked, both lists are replaced, Ok(()) drops the guards
FetchReplace ==
    /\ lk.r_pc = "mon_held"
    /\ lk.bl = "none"
    /\ FetchOk(lk.r_resp)
    /\ lk' = [lk EXCEPT !.mon = "none", !.r_resp = NoConfig, !.r_pc = "idle"]
    /\ UNCHANGED lkRest

InitLocks ==
    /\ \E resp \in ClsConfigs : CfgLoaded(resp)
    /\ OldIdle /\ DetIdle /\ CuIdle /\ LkInit /\ MwIdle /\ RuIdle /\ SwIdle /\ EbIdle /\ CqIdle /\ LoIdle

NextLocks ==
    \/ LockMonitored
    \/ ReadMonitored
    \/ PathExists
    \/ LockBlacklist
    \/ BlacklistCompare
    \/ BlacklistCanonicalize
    \/ FetchRequest
    \/ FetchLockMonitored
    \/ FetchReplace

SpecLocks == InitLocks /\ [][NextLocks]_vars

(***************************************************************************)
(* One path below several watched directories: start_monitoring sets up    *)
(* one watch (setup_single_debounced_watch) for every directory it is      *)
(* given, each with a watcher thread, a debounce queue and a debounce task *)
(* of its own, and all of them send to the one central handler.  A watch   *)
(* is recursive, so a path below two monitored directories, one inside the *)
(* other, or below a directory that was given a second watch, is reported  *)
(* to each of them.                                                        *)
(***************************************************************************)

\* bound on the raw events of the path
MaxPathEvents == 3

\* the watches that can observe the path
WatchIds == {1, 2}

NoRecord == [kind |-> "absent", id |-> 0]

MwInit ==
    \E ws \in {{1}, WatchIds} :
        mw = [watches |-> ws,
              events |-> <<>>,
              seen |-> [w \in WatchIds |-> 0],
              buffer |-> [w \in WatchIds |-> NoRecord],
              taken |-> [w \in WatchIds |-> NoRecord],
              channel |-> <<>>,
              delivered |-> <<>>]

\* something happens to the path: the operating system has one more event
\* for every watch that observes it
PathEvent ==
    \E raw \in RawKinds :
        /\ Len(mw.events) < MaxPathEvents
        /\ mw' = [mw EXCEPT !.events = Append(@, raw)]
        /\ UNCHANGED mwRest

\* the callback of watch w gets its next event, normalises the kind and sends
\* it, and the debounce task of w receives it:
\* debounce_buffer.insert(path, kind)
WatchReceive(w) ==
    /\ w \in mw.watches
    /\ mw.taken[w] = NoRecord
    /\ mw.seen[w] < Len(mw.events)
    /\ LET id == mw.seen[w] + 1
       IN  \E chk \in Checks(mw.events[id]) :
              mw' = [mw EXCEPT !.seen[w] = id,
                               !.buffer[w] = [kind |-> ProcessedKind(mw.events[id], chk),
                                              id |-> id]]
    /\ UNCHANGED mwRest

\* interval.tick() of the debounce task of w: std::mem::take
WatchTick(w) ==
    /\ w \in mw.watches
    /\ mw.taken[w] = NoRecord
    /\ mw.buffer[w] # NoRecord
    /\ mw' = [mw EXCEPT !.taken[w] = mw.buffer[w], !.buffer[w] = NoRecord]
    /\ UNCHANGED mwRest

\* tx_clone.send((path, kind)).await of the debounce task of w
WatchForward(w) ==
    /\ w \in mw.watches
    /\ mw.taken[w] # NoRecord
    /\ Len(mw.channel) < CentralCap
    /\ mw' = [mw EXCEPT !.channel = Append(@, [kind |-> mw.taken[w].kind,
                                               id |-> mw.taken[w].id,
                                               watch |-> w]),
                        !.taken[w] = NoRecord]
    /\ UNCHANGED mwRest

\* event_rx_for_central_handler.recv() of the central handler
CentralTakes ==
    /\ mw.channel # <<>>
    /\ mw' = [mw EXCEPT !.delivered = Append(@, Head(mw.channel)),
                        !.channel = Tail(@)]
    /\ UNCHANGED mwRest

InitWatches == CfgInit /\ OldIdle /\ DetIdle /\ CuIdle /\ LkIdle /\ MwInit /\ RuIdle /\ SwIdle /\ EbIdle /\ CqIdle /\ LoIdle

NextWatches ==
    \/ PathEvent
    \/ \E w \in WatchIds : WatchReceive(w)
    \/ \E w \in WatchIds : WatchTick(w)
    \/ \E w \in WatchIds : WatchForward(w)
    \/ CentralTakes

SpecWatches == InitWatches /\ [][NextWatches]_vars

(***************************************************************************)
(* One call of FileMonitor::apply_initial_rules, on the metadata of a file *)
(* and a configuration with an extension map and a list of filter rules    *)
(***************************************************************************)

\* bound on the filter rules of a configuration
MaxRules == 2

\* the filter rules the configurations are made of
RulePool ==
    { RuleCatalog[1], RuleCatalog[2], RuleCatalog[3], RuleCatalog[4],
      MkRule(5, <<"cat-report">>, TRUE, "Filename", "keyword", <<"Report">>, TRUE, "Tag", 3),
      MkRule(6, <<"off-cat">>, FALSE, "Extension", "keyword", <<"pdf">>, TRUE, "Tag", 4),
      MkRule(7, <<"keep-report">>, TRUE, "Filename", "regex", <<"report">>, TRUE, "Include", 5) }

RuleLists == UNION { [1..n -> RulePool] : n \in 0..MaxRules }

ExtMapLists ==
    { <<>>,
      <<ExtMap(<<"pdf">>, 1)>>,
      <<ExtMap(<<"pdf">>, 1), ExtMap(<<"pdf">>, 6)>>,
      <<ExtMap(<<"txt">>, 2), ExtMap(<<"pdf">>, 1)>> }

RulePaths == {PathReport, PathDraft, PathText, PathNotes}

RuInit ==
    \E p \in RulePaths, maps \in ExtMapLists, rules \in RuleLists :
        ru = [pc |-> "start",
              cfg |-> MkConfig(<<DirDocs>>, FALSE, maps, rules),
              meta |-> get_file_metadata(p, "file"),
              out |-> [is_some |-> FALSE]]

\* the call
ApplyCall ==
    /\ ru.pc = "start"
    /\ ru' = [ru EXCEPT !.pc = "done",
                        !.out = apply_initial_rules(ru.meta, ru.cfg).meta]
    /\ UNCHANGED ruRest

InitRules == CfgInit /\ OldIdle /\ DetIdle /\ CuIdle /\ LkIdle /\ MwIdle /\ RuInit /\ SwIdle /\ EbIdle /\ CqIdle /\ LoIdle

NextRules == ApplyCall

SpecRules == InitRules /\ [][NextRules]_vars

(***************************************************************************)
(* The walk of perform_initial_scan over one monitored directory, with the *)
(* closure of filter_entry, beside what process_file_event answers for the *)
(* entries of the tree                                                     *)
(***************************************************************************)

\* a directory without bundle suffix that holds Contents/Info.plist
PathThing      == Root \o <<"/", "Thing">>
PathThingPlist == PathThing \o <<"/", "Contents", "/", "Info", ".", "plist">>
PathThingPdf   == PathThing \o <<"/", "notes", ".", "pdf">>

\* what WalkDir finds below /data/docs, parents before their children
WalkTrees ==
    { << Entry(Root, "dir"), Entry(PathApp, "bundle_dir"), Entry(PathPlist, "file"),
         Entry(PathAppPdf, "file"), Entry(PathReport, "file") >>,
      << Entry(Root, "dir"), Entry(Root \o <<"/", ".", "hid">>, "dir"),
         Entry(PathHidDir, "file"), Entry(PathHidName, "file"), Entry(PathText, "file") >>,
      << Entry(Root, "dir"), Entry(DirPrivate.path, "dir"), Entry(PathPrivate, "file"),
         Entry(PathLink, "file"), Entry(PathNotes, "file") >>,
      << Entry(Root, "dir"), Entry(PathThing, "bundle_dir"), Entry(PathThingPlist, "file"),
         Entry(PathThingPdf, "file"), Entry(PathDraft, "file") >>,
      << Entry(Root, "dir"), Entry(PathReport, "file"), Entry(PathText, "file"),
         Entry(PathDraft, "file"), Entry(PathNotes, "dotty_dir") >> }

\* the configurations with /data/docs among the monitored folders
WalkConfigs ==
    { cfg \in KnownConfigs :
        \E i \in DOMAIN cfg.monitored_folders : cfg.monitored_folders[i] = DirDocs }

\* FileMonitor::process_file_event as a function of the path, the kind of the
\* event, what the path is on disk, the configuration cache and the two sets:
\* the FileMetadata it returns, or None with the reason
process_file_event(p, kind, fs, cfg, monitored, blacklist) ==
    LET Nothing(reason) == [is_some |-> FALSE, reason |-> reason]
    IN  IF kind = "Remove" THEN Nothing("removed")
        ELSE IF ~BelongsToMonitored(p, monitored) THEN Nothing("not_monitored")
        ELSE IF ~cfg.is_some THEN Nothing("no_config")
        ELSE IF PathCheck(p, fs, cfg) # "pass" THEN Nothing(PathCheck(p, fs, cfg))
        ELSE IF is_in_blacklist(p, fs, blacklist) THEN Nothing("blacklist")
        ELSE IF ~get_file_metadata(p, fs).is_some THEN Nothing("no_metadata")
        ELSE LET r == apply_initial_rules(get_file_metadata(p, fs), cfg)
             IN  IF r.meta.excluded_by_rule_id # 0 THEN Nothing("excluded")
                 ELSE r.meta

\* the entries of todo below the directory p
Below(todo, p) ==
    SelectSeq(todo, LAMBDA e : StartsWith(e.path, p \o <<"/">>))

\* an entry the walk does not yield: self says whether the closure answered
\* false for the entry or for a directory above it, why is the closure's reason
Skipped(e, why, self) == [path |-> e.path, fs |-> e.fs, why |-> why, self |-> self]

SwInit ==
    \E cfg \in WalkConfigs, tree \in WalkTrees :
        LET sets == ClassifyFolders(cfg.monitored_folders, cfg.full_disk_access, 1,
                                    [bl |-> <<>>, au |-> <<>>])
        IN  sw = [pc |-> "walk", cfg |-> cfg, monitored |-> sets.au,
                  blacklist |-> sets.bl, todo |-> tree, skipped |-> {}, walked |-> {}]

\* the closure answers false: WalkDir yields neither the entry nor, for a
\* directory, anything below it
WalkPrune ==
    /\ sw.pc = "walk"
    /\ sw.todo # <<>>
    /\ LET e == Head(sw.todo)
           why == InitialScanFilter(e.path, e.fs, sw.cfg, sw.blacklist)
           below == Below(Tail(sw.todo), e.path)
       IN  /\ why # "walk"
           /\ sw' = [sw EXCEPT
                  !.todo = NotBelow(Tail(sw.todo), e.path),
                  !.skipped = @ \cup {Skipped(e, why, TRUE)}
                                \cup { Skipped(below[k], why, FALSE) : k \in DOMAIN below }]
    /\ UNCHANGED swRest

\* the closure answers true: the entry is yielded and perform_initial_scan
\* calls process_file_event with it
WalkYield ==
    /\ sw.pc = "walk"
    /\ sw.todo # <<>>
    /\ LET e == Head(sw.todo)
       IN  /\ InitialScanFilter(e.path, e.fs, sw.cfg, sw.blacklist) = "walk"
           /\ sw' = [sw EXCEPT !.todo = Tail(sw.todo), !.walked = @ \cup {e}]
    /\ UNCHANGED swRest

\* the walk is over
WalkEnd ==
    /\ sw.pc = "walk"
    /\ sw.todo = <<>>
    /\ sw' = [sw EXCEPT !.pc = "done"]
    /\ UNCHANGED swRest

InitWalk == CfgInit /\ OldIdle /\ DetIdle /\ CuIdle /\ LkIdle /\ MwIdle /\ RuIdle /\ SwInit /\ EbIdle /\ CqIdle /\ LoIdle

NextWalk == WalkPrune \/ WalkYield \/ WalkEnd

SpecWalk == InitWalk /\ [][NextWalk]_vars

(***************************************************************************)
(* EventBuffer: the buffering of the bridge events of one event name.      *)
(* Instants and durations are counted in steps of 500 ms.                  *)
(***************************************************************************)

\* the bridge events handed to handle_event in a run
MaxBridgeEvents == 3

\* the instants of a run
MaxBridgeClock == 9

\* Duration::from_secs and Duration::from_millis(500) in steps
Secs(n) == 2 * n

HalfSecond == 1

\* interval(Duration::from_millis(1000)) of the flush task
FlushInterval == 2

\* the event names of a run; custom-event stands for every name that
\* configure_strategies does not insert
BridgeEventNames ==
    { "system-status", "tags-updated", "database-updated", "task-completed",
      "parsing-progress", "screening-progress", "file-processed", "custom-event" }

\* configure_strategies and the default of handle_event
Strategy(name) ==
    CASE name \in {"error-occurred", "system-status", "model-status-changed"} ->
             [kind |-> "Immediate", d |-> 0]
      [] name = "tags-updated" -> [kind |-> "DelayedMerge", d |-> Secs(5)]
      [] name = "database-updated" -> [kind |-> "DelayedMerge", d |-> Secs(3)]
      [] name = "task-completed" -> [kind |-> "DelayedMerge", d |-> Secs(2)]
      [] name \in {"parsing-progress", "screening-progress"} ->
             [kind |-> "Throttle", d |-> Secs(1)]
      [] name = "file-processed" -> [kind |-> "Throttle", d |-> Secs(2)]
      [] OTHER -> [kind |-> "DelayedMerge", d |-> HalfSecond]

\* should_send of the flush task
should_send(key, age) ==
    CASE key \in {"tags-updated", "database-updated"} -> age >= Secs(5)
      [] key = "task-completed" -> age >= Secs(2)
      [] key = "file-processed" -> age >= Secs(2)
      [] OTHER -> age >= Secs(1)

\* BufferedEvent; data is the number of the bridge event it carries
BufferedEvent(data, first, last, count) ==
    [is_some |-> TRUE, data |-> data, first_time |-> first, last_time |-> last,
     count |-> count]

\* app_handle.emit: the log of what the frontend receives
Emit(log, data, at, by) == Append(log, [id |-> data, at |-> at, by |-> by])

\* EventBuffer::new; the first tick of the flush task is at most one interval
\* away
EbInit ==
    \E name \in BridgeEventNames, phase \in 0..(FlushInterval - 1) :
        eb = [pc |-> "open", name |-> name, clock |-> 0, next_tick |-> phase,
              entry |-> [is_some |-> FALSE], log |-> <<>>, sent |-> 0]

\* handle_event with handle_delayed_merge and handle_throttle
EbHandleEvent ==
    /\ eb.pc = "open"
    /\ eb.sent < MaxBridgeEvents
    /\ LET id == eb.sent + 1
           at == eb.clock
           strategy == Strategy(eb.name)
           fresh == BufferedEvent(id, at, at, 1)
           updated == [eb.entry EXCEPT !.data = id, !.last_time = at, !.count = @ + 1]
       IN  CASE strategy.kind = "Immediate" ->
                    eb' = [eb EXCEPT !.sent = id,
                                     !.log = Emit(@, id, at, "direct")]
             [] strategy.kind = "DelayedMerge" ->
                    eb' = [eb EXCEPT !.sent = id,
                                     !.entry = IF eb.entry.is_some THEN updated ELSE fresh]
             [] strategy.kind = "Throttle" ->
                    IF eb.entry.is_some /\ at - eb.entry.last_time < strategy.d
                    THEN eb' = [eb EXCEPT !.sent = id, !.entry = updated]
                    ELSE eb' = [eb EXCEPT !.sent = id, !.entry = fresh,
                                          !.log = Emit(@, id, at, "direct")]
    /\ UNCHANGED ebRest

\* one turn of the loop of the flush task
EbFlushTick ==
    /\ eb.pc = "open"
    /\ eb.clock = eb.next_tick
    /\ IF eb.entry.is_some /\ should_send(eb.name, eb.clock - eb.entry.last_time)
       THEN eb' = [eb EXCEPT !.next_tick = @ + FlushInterval,
                             !.entry = [is_some |-> FALSE],
                             !.log = Emit(@, eb.entry.data, eb.clock, "flush")]
       ELSE eb' = [eb EXCEPT !.next_tick = @ + FlushInterval]
    /\ UNCHANGED ebRest

\* time passes; the flush task is not late
EbAdvance ==
    /\ eb.pc = "open"
    /\ eb.clock < MaxBridgeClock
    /\ eb.clock < eb.next_tick
    /\ eb' = [eb EXCEPT !.clock = @ + 1]
    /\ UNCHANGED ebRest

\* flush_all
EbFlushAll ==
    /\ eb.pc = "open"
    /\ eb' = [eb EXCEPT !.pc = "closed",
                        !.entry = [is_some |-> FALSE],
                        !.log = IF eb.entry.is_some
                                THEN Emit(@, eb.entry.data, eb.clock, "flush_all")
                                ELSE @]
    /\ UNCHANGED ebRest

InitBuffer ==
    CfgInit /\ OldIdle /\ DetIdle /\ CuIdle /\ LkIdle /\ MwIdle /\ RuIdle /\ SwIdle /\ EbInit /\ CqIdle /\ LoIdle

NextBuffer == EbHandleEvent \/ EbFlushTick \/ EbAdvance \/ EbFlushAll

SpecBuffer == InitBuffer /\ [][NextBuffer]_vars

(***************************************************************************)
(* The queue of configuration changes of AppState: the queue_* commands,   *)
(* process_pending_config_changes, and the tasks it spawns, each running   *)
(* execute_config_changes over the changes it was given                    *)
(***************************************************************************)

\* the configuration changes the front end queues in a run; a change is
\* named by its place in the order of queueing
MaxQueued == 3

\* AppState::process_pending_config_changes: the queue is cloned and cleared
\* under its lock and, when it held something, a task is spawned for it
process_pending_config_changes(q) ==
    [q EXCEPT !.pending = <<>>,
              !.tasks = IF q.pending = <<>> THEN @
                        ELSE Append(@, [changes |-> q.pending, pos |-> 1, busy |-> FALSE])]

CqInit ==
    \E completed \in BOOLEAN :
        cq = [completed |-> completed, pending |-> <<>>, issued |-> 0, tasks |-> <<>>,
              started |-> {}, finished |-> {}, order |-> <<>>]

\* a queue_* command: add_pending_config_change and, when the initial scan
\* is completed, process_pending_config_changes
CqQueue ==
    /\ cq.issued < MaxQueued
    /\ LET pushed == [cq EXCEPT !.issued = @ + 1,
                                !.pending = Append(@, cq.issued + 1)]
       IN  cq' = IF cq.completed THEN process_pending_config_changes(pushed)
                 ELSE pushed
    /\ UNCHANGED cqRest

\* AppState::set_initial_scan_completed(true)
CqScanCompleted ==
    /\ ~cq.completed
    /\ cq' = process_pending_config_changes([cq EXCEPT !.completed = TRUE])
    /\ UNCHANGED cqRest

\* a task comes to its next change and calls execute_single_config_change
CqStart(t) ==
    /\ t \in DOMAIN cq.tasks
    /\ ~cq.tasks[t].busy
    /\ cq.tasks[t].pos <= Len(cq.tasks[t].changes)
    /\ LET c == cq.tasks[t].changes[cq.tasks[t].pos]
       IN  cq' = [cq EXCEPT !.tasks[t].busy = TRUE,
                            !.started = @ \cup {c},
                            !.order = Append(@, c)]
    /\ UNCHANGED cqRest

\* execute_single_config_change returns; the task sleeps 200 ms and goes on
CqFinish(t) ==
    /\ t \in DOMAIN cq.tasks
    /\ cq.tasks[t].busy
    /\ LET c == cq.tasks[t].changes[cq.tasks[t].pos]
       IN  cq' = [cq EXCEPT !.tasks[t].busy = FALSE,
                            !.tasks[t].pos = @ + 1,
                            !.finished = @ \cup {c}]
    /\ UNCHANGED cqRest

InitQueue == CfgInit /\ OldIdle /\ DetIdle /\ CuIdle /\ LkIdle /\ MwIdle /\ RuIdle /\ SwIdle /\ EbIdle /\ CqInit /\ LoIdle

NextQueue ==
    \/ CqQueue
    \/ CqScanCompleted
    \/ \E t \in 1..MaxQueued : CqStart(t)
    \/ \E t \in 1..MaxQueued : CqFinish(t)

SpecQueue == InitQueue /\ [][NextQueue]_vars

(***************************************************************************)
(* The mutexes of a FileMonitor and the threads that lock them: every      *)
(* thread runs one function, as the sequence of its lock() calls and of    *)
(* the ends of the scopes of its guards                                    *)
(***************************************************************************)

\* the threads of a run
MaxLockThreads == 2

\* the Arc<Mutex<..>> fields of FileMonitor
Mutexes ==
    { "config_cache", "monitored_dirs", "blacklist_dirs", "bundle_extensions_cache",
      "bundle_cache_timestamp", "stats" }

Acq(m) == [op |-> "lock", mutex |-> m]

Rel(m) == [op |-> "drop", mutex |-> m]

\* FileMonitor::is_bundle_cache_expired
ExpiredProgram == << Acq("bundle_cache_timestamp"), Rel("bundle_cache_timestamp") >>

\* a stop_monitoring_directory that takes the blacklist first and the monitored
\* set inside it
LockProgramStopNested(fn) ==
    CASE fn = "fetch_and_store_all_config" ->
             << Acq("config_cache"), Acq("monitored_dirs"), Acq("blacklist_dirs"),
                Rel("blacklist_dirs"), Rel("monitored_dirs"), Rel("config_cache") >>
      [] fn = "stop_monitoring_directory" ->
             << Acq("blacklist_dirs"), Acq("monitored_dirs"),
                Rel("monitored_dirs"), Rel("blacklist_dirs") >>
      [] fn = "update_directory_status" ->
             << Acq("monitored_dirs"), Rel("monitored_dirs") >>
      [] fn = "process_file_event" ->
             << Acq("monitored_dirs"), Rel("monitored_dirs"),
                Acq("config_cache"), Rel("config_cache"),
                Acq("stats"), Rel("stats"),
                Acq("blacklist_dirs"), Rel("blacklist_dirs"),
                Acq("config_cache"), Acq("stats"), Rel("stats"), Rel("config_cache") >>
      [] fn = "batch_processor" ->
             << Acq("config_cache"), Rel("config_cache") >>
      [] fn = "update_bundle_cache" ->
             << Acq("bundle_extensions_cache"), Acq("bundle_cache_timestamp"),
                Rel("bundle_cache_timestamp"), Rel("bundle_extensions_cache") >>
      [] fn = "get_cached_bundle_extensions" ->
             << Acq("bundle_extensions_cache") >> \o ExpiredProgram
                \o << Rel("bundle_extensions_cache") >>
      [] fn = "get_configuration_summary" ->
             << Acq("config_cache"), Acq("bundle_extensions_cache"),
                Acq("bundle_cache_timestamp"), Acq("monitored_dirs"),
                Acq("blacklist_dirs") >> \o ExpiredProgram
                \o << Rel("blacklist_dirs"), Rel("monitored_dirs"),
                      Rel("bundle_cache_timestamp"), Rel("bundle_extensions_cache"),
                      Rel("config_cache") >>

\* the lock() calls and the drops of the guards of a function, in the order
\* of the code
LockProgram(fn) ==
    CASE fn = "fetch_and_store_all_config" ->
             << Acq("config_cache"), Acq("monitored_dirs"), Acq("blacklist_dirs"),
                Rel("blacklist_dirs"), Rel("monitored_dirs"), Rel("config_cache") >>
      [] fn = "stop_monitoring_directory" ->
             << Acq("monitored_dirs"), Rel("monitored_dirs"),
                Acq("blacklist_dirs"), Rel("blacklist_dirs") >>
      [] fn = "update_directory_status" ->
             << Acq("monitored_dirs"), Rel("monitored_dirs") >>
      [] fn = "process_file_event" ->
             << Acq("monitored_dirs"), Rel("monitored_dirs"),
                Acq("config_cache"), Rel("config_cache"),
                Acq("stats"), Rel("stats"),
                Acq("blacklist_dirs"), Rel("blacklist_dirs"),
                Acq("config_cache"), Acq("stats"), Rel("stats"), Rel("config_cache") >>
      [] fn = "batch_processor" ->
             << Acq("config_cache"), Rel("config_cache") >>
      [] fn = "update_bundle_cache" ->
             << Acq("bundle_extensions_cache"), Acq("bundle_cache_timestamp"),
                Rel("bundle_cache_timestamp"), Rel("bundle_extensions_cache") >>
      [] fn = "get_cached_bundle_extensions" ->
             << Acq("bundle_extensions_cache") >> \o ExpiredProgram
                \o << Rel("bundle_extensions_cache") >>
      [] fn = "get_configuration_summary" ->
             << Acq("config_cache"), Acq("bundle_extensions_cache"),
                Acq("bundle_cache_timestamp"), Acq("monitored_dirs"),
                Acq("blacklist_dirs") >> \o ExpiredProgram
                \o << Rel("blacklist_dirs"), Rel("monitored_dirs"),
                      Rel("bundle_cache_timestamp"), Rel("bundle_extensions_cache"),
                      Rel("config_cache") >>

\* the functions of the threads that run beside each other
ConcurrentFunctions ==
    { "fetch_and_store_all_config", "stop_monitoring_directory",
      "update_directory_status", "process_file_event", "batch_processor",
      "update_bundle_cache", "get_cached_bundle_extensions" }

LoThreads == 1..MaxLockThreads

LoStart(fns) ==
    lo = [fn |-> fns,
          pos |-> [t \in LoThreads |-> 1],
          fate |-> [t \in LoThreads |-> "running"],
          owner |-> [m \in Mutexes |-> 0],
          poisoned |-> {}]

\* the step a running thread is at: its next lock or drop, or "end"
NextOp(t) ==
    IF lo.pos[t] > Len(LockProgram(lo.fn[t])) THEN [op |-> "end", mutex |-> ""]
    ELSE LockProgram(lo.fn[t])[lo.pos[t]]

\* Mutex::lock on a mutex that no thread holds
LoAcquire(t) ==
    /\ lo.fate[t] = "running"
    /\ NextOp(t).op = "lock"
    /\ lo.owner[NextOp(t).mutex] = 0
    /\ NextOp(t).mutex \notin lo.poisoned
    /\ lo' = [lo EXCEPT !.owner[NextOp(t).mutex] = t, !.pos[t] = @ + 1]
    /\ UNCHANGED loRest

\* the guard goes out of scope
LoRelease(t) ==
    /\ lo.fate[t] = "running"
    /\ NextOp(t).op = "drop"
    /\ lo' = [lo EXCEPT !.owner[NextOp(t).mutex] = 0, !.pos[t] = @ + 1]
    /\ UNCHANGED loRest

\* the function returns
LoReturn(t) ==
    /\ lo.fate[t] = "running"
    /\ NextOp(t).op = "end"
    /\ lo' = [lo EXCEPT !.fate[t] = "returned"]
    /\ UNCHANGED loRest

\* Mutex::lock on a mutex the thread holds itself: the call does not return;
\* it blocks for ever or it panics, and a panic drops the guards of the
\* thread and poisons their mutexes
LoRelock(t) ==
    /\ lo.fate[t] = "running"
    /\ NextOp(t).op = "lock"
    /\ lo.owner[NextOp(t).mutex] = t
    /\ \/ lo' = [lo EXCEPT !.fate[t] = "stuck"]
       \/ lo' = [lo EXCEPT !.fate[t] = "panicked",
                           !.owner = [m \in Mutexes |-> IF lo.owner[m] = t THEN 0
                                                        ELSE lo.owner[m]],
                           !.poisoned = @ \cup { m \in Mutexes : lo.owner[m] = t }]
    /\ UNCHANGED loRest

\* lock().unwrap() on a poisoned mutex panics; if let Ok(..) = stats.lock()
\* passes over its block
LoPoisoned(t) ==
    /\ lo.fate[t] = "running"
    /\ NextOp(t).op = "lock"
    /\ lo.owner[NextOp(t).mutex] = 0
    /\ NextOp(t).mutex \in lo.poisoned
    /\ lo' = [lo EXCEPT !.fate[t] = "panicked",
                        !.owner = [m \in Mutexes |-> IF lo.owner[m] = t THEN 0
                                                     ELSE lo.owner[m]],
                        !.poisoned = @ \cup { m \in Mutexes : lo.owner[m] = t }]
    /\ UNCHANGED loRest

InitLockOrder ==
    /\ CfgInit /\ OldIdle /\ DetIdle /\ CuIdle /\ LkIdle /\ MwIdle /\ RuIdle /\ SwIdle
    /\ EbIdle /\ CqIdle
    /\ \E fns \in [LoThreads -> ConcurrentFunctions] : LoStart(fns)

NextLockOrder ==
    \E t \in LoThreads : LoAcquire(t) \/ LoRelease(t) \/ LoReturn(t)

SpecLockOrder == InitLockOrder /\ [][NextLockOrder]_vars

\* get_configuration_summary in the first thread, beside the other functions
InitSummary ==
    /\ CfgInit /\ OldIdle /\ DetIdle /\ CuIdle /\ LkIdle /\ MwIdle /\ RuIdle /\ SwIdle
    /\ EbIdle /\ CqIdle
    /\ \E fns \in [LoThreads -> ConcurrentFunctions \cup {"get_configuration_summary"}] :
          /\ fns[1] = "get_configuration_summary"
          /\ LoStart(fns)

NextSummary ==
    \E t \in LoThreads :
        LoAcquire(t) \/ LoRelease(t) \/ LoReturn(t) \/ LoRelock(t) \/ LoPoisoned(t)

SpecSummary == InitSummary /\ [][NextSummary]_vars

(***************************************************************************)
(* Properties                                                              *)
(***************************************************************************)

\* the folders of a fetched configuration that are to be monitored
ExpectedMonitored(cfg) ==
    SelectSeq(cfg.monitored_folders,
              LAMBDA d : /\ ~d.is_blacklist
                         /\ (cfg.full_disk_access \/ d.auth_status = "Authorized"))

\* the folders of a fetched configuration that form the blacklist
ExpectedBlacklist(cfg) ==
    SelectSeq(cfg.monitored_folders, LAMBDA d : d.is_blacklist)

\* C1: the startup fetches the configuration at most 30 times; when the 30th
\* attempt is the one that succeeds the startup succeeds and the monitored and
\* the blacklist set are those of that 30th response; nothing (batch
\* processor, initial scan, watch) is started before a fetch has succeeded.
C1_StartupRetry ==
    /\ attempts <= 30
    /\ (s_pc # "loop" /\ config_fetched) => s_result = "ok"
    /\ (s_result = "ok" /\ attempts = 30) =>
          /\ last_attempt.is_some
          /\ config_cache = last_attempt
          /\ monitored_dirs = ExpectedMonitored(last_attempt)
          /\ blacklist_dirs = ExpectedBlacklist(last_attempt)
          /\ Range(watches) \subseteq Range(PathsOf(ExpectedMonitored(last_attempt)))
    /\ (\/ batch_started
        \/ scan_started
        \/ watches # <<>>
        \/ "file-monitor-started" \in emitted) => fetch_ok > 0

\* C1 witness: 29 failures, success at the 30th attempt, watches running
C1_Witness ==
    /\ s_pc = "done"
    /\ s_result = "ok"
    /\ attempts = 30
    /\ retries = 29
    /\ watches # <<>>
    /\ blacklist_dirs # <<>>

C3_FetchPartition ==
    [][fetch_ok' # fetch_ok =>
          /\ config_cache'.is_some
          /\ monitored_dirs' = ExpectedMonitored(config_cache')
          /\ blacklist_dirs' = ExpectedBlacklist(config_cache')
          /\ Range(monitored_dirs') \cap Range(blacklist_dirs') = {}
          /\ \A d \in Range(config_cache'.monitored_folders) :
                d.is_blacklist => d \notin Range(monitored_dirs')]_vars

\* C3 witness: a fetch has just stored a configuration with a monitored, a
\* blacklisted and a not authorized folder
C3_Witness ==
    /\ cfg_last = [op |-> "fetch", ok |-> TRUE]
    /\ monitored_dirs # <<>>
    /\ blacklist_dirs # <<>>
    /\ ~config_cache.full_disk_access
    /\ Len(monitored_dirs) + Len(blacklist_dirs) < Len(config_cache.monitored_folders)

\* the raw kinds of one path's window, in arrival order
RECURSIVE RawOf(_)
RawOf(w) == IF w = <<>> THEN <<>> ELSE <<w[1].raw>> \o RawOf(Tail(w))

\* the kind the central handler gives a forwarded record
RecordKind(kind) == SimplifiedKind(kind, "unchecked")

\* the records the last tick took out of the buffer for path q
FlushedFor(q) == { r \in last_flush.out : r.path = q }

InFlightIds ==
    { cb_pending[k].id : k \in DOMAIN cb_pending }
    \cup { debounce_q[k].id : k \in DOMAIN debounce_q }
    \cup UNION { debounce_buffer[q].evs : q \in DOMAIN debounce_buffer }
    \cup UNION { e.evs : e \in fwd_pending }
    \cup UNION { central_q[k].evs : k \in DOMAIN central_q }

\* C6: no raw event is dropped under backpressure: every event the callback
\* has received is either still on its way (waiting for room, queued, in the
\* buffer, being forwarded) or stands behind a record the central handler has
\* received, and every received event eventually stands behind such a record.
C6_NoEventDropped ==
    /\ [](\A i \in 1..ev_count : i \in InFlightIds \cup ev_done)
    /\ \A i \in 1..MaxEvents : (ev_count >= i) ~> (i \in ev_done)

\* the debounce queue is full and the callback is waiting for room with an
\* event in hand
C6_Witness ==
    /\ Len(debounce_q) = DebounceCap
    /\ cb_pending # <<>>

\* the later of two times
Later(a, b) == IF a >= b THEN a ELSE b

\* C7: whenever the batch buffer is not empty, a flush is dispatched as soon
\* as it holds batch_size records or batch_interval has passed since the last
\* flush: so the buffer never holds batch_size records, and a non-empty buffer
\* is never older than batch_interval, its age counted from the last flush or,
\* if that is later, from the moment it stopped being empty.
C7_FlushWhenDue ==
    batch # <<>> =>
        /\ Len(batch) < BatchSize
        /\ now - Later(last_send, batch_since) <= BatchInterval

\* the ids of the records of a sequence
IdsOf(records) == { records[j].id : j \in DOMAIN records }

\* the number of records of the first k dispatches
RECURSIVE DispatchedCount(_)
DispatchedCount(k) ==
    IF k = 0 THEN 0 ELSE Len(dispatched[k].records) + DispatchedCount(k - 1)

\* C8: every flush dispatches exactly the records buffered since the previous
\* flush, as many as were buffered, and empties the buffer whether the send
\* succeeds or fails; no record is in two dispatches or in a dispatch and the
\* buffer, and a dispatch once made is never made again.
C8_FlushExactlyOnce ==
    /\ [](/\ \A k \in DOMAIN dispatched :
              /\ Cardinality(IdsOf(dispatched[k].records)) = Len(dispatched[k].records)
              /\ IdsOf(dispatched[k].records) \cap IdsOf(batch) = {}
              /\ \A j \in DOMAIN dispatched :
                    j # k => IdsOf(dispatched[k].records)
                               \cap IdsOf(dispatched[j].records) = {}
          /\ DispatchedCount(Len(dispatched)) + Len(batch) = b_stats.processed_files)
    /\ [][dispatched' # dispatched =>
             /\ Len(dispatched') = Len(dispatched) + 1
             /\ SubSeq(dispatched', 1, Len(dispatched)) = dispatched
             /\ LET sent == dispatched'[Len(dispatched')].records
                IN  IF recv_count' # recv_count
                    THEN /\ Len(sent) = Len(batch) + 1
                         /\ SubSeq(sent, 1, Len(batch)) = batch
                         /\ sent[Len(sent)].id = recv_count'
                    ELSE sent = batch
             /\ batch' = <<>>]_vars

\* a send has failed and a later flush has been dispatched
C8_Witness ==
    \E k \in DOMAIN dispatched : k < Len(dispatched) /\ ~dispatched[k].ok

\* what must never be buffered, whatever the configuration
NeverBuffered(meta) ==
    \/ meta.is_hidden
    \/ meta.is_os_bundle = "Some(true)"
    \/ meta.excluded
    \/ meta.is_dir
    \/ Contains(meta.file_name, <<".", "DS_Store">>)

\* lacking a whitelisted extension, when the extension map is not empty
LacksWhitelistedExtension(meta, cfg) ==
    /\ cfg.is_some
    /\ cfg.file_extension_maps # <<>>
    /\ \A i \in DOMAIN cfg.file_extension_maps :
          meta.extension = None
          \/ ToLower(meta.extension) # ToLower(cfg.file_extension_maps[i].extension)

\* C9: no record that is hidden, flagged as an OS bundle, excluded by a rule,
\* a directory or named like .DS_Store is ever in the batch buffer or in a
\* dispatch, and no record is placed in the buffer (or dispatched with the
\* flush its arrival causes) while it lacks a whitelisted extension under the
\* extension map cached at that moment.
C9_OnlyWantedBuffered ==
    /\ [](/\ \A j \in DOMAIN batch : ~NeverBuffered(batch[j].meta)
          /\ \A k \in DOMAIN dispatched :
                \A j \in DOMAIN dispatched[k].records :
                    ~NeverBuffered(dispatched[k].records[j].meta))
    /\ [][b_stats'.processed_files # b_stats.processed_files =>
             LET placed == IF dispatched' # dispatched
                           THEN dispatched'[Len(dispatched')].records
                           ELSE batch'
             IN  /\ placed # <<>>
                 /\ placed[Len(placed)].id = recv_count'
                 /\ ~LacksWhitelistedExtension(placed[Len(placed)].meta, config_cache)]_vars

\* records have been skipped for a rule exclusion and for the extension, and
\* a batch has been dispatched
C9_Witness ==
    /\ b_stats.rule_excluded_files_skipped > 0
    /\ b_stats.invalid_extension_skipped > 0
    /\ dispatched # <<>>

\* C4: all configuration reads made during one classification of one path
\* (monitored set, extension whitelist, blacklist set, rules and extension
\* map) come from the same fetched snapshot.
C4_SingleSnapshot ==
    \A r1 \in c_reads : \A r2 \in c_reads : r1.cfg = r2.cfg

\* a path has a hidden segment: a component that starts with '.' and is
\* neither "." nor ".."
HasHiddenSegment(p) ==
    \E i \in DOMAIN SplitSlash(p) :
        LET part == SplitSlash(p)[i]
        IN  /\ part # <<>>
            /\ part[1] = "."
            /\ part # <<".">>
            /\ part # <<".", ".">>

\* C10: for a path with a hidden segment process_file_event never stands
\* before rule evaluation, never runs apply_initial_rules and never returns
\* metadata.
C10_HiddenRejected ==
    HasHiddenSegment(c_path) =>
        /\ c_pc # "rules"
        /\ ~c_rules_ran
        /\ ~c_result.is_some

\* an existing file with a hidden segment, inside a monitored directory, has
\* been rejected as hidden
C10_Witness ==
    /\ HasHiddenSegment(c_path)
    /\ c_fs = "file"
    /\ c_pc = "done"
    /\ c_result.reason = "hidden"


\* the list ensure_bundle_cache_valid stands for at this moment
ConfiguredBundleExtensions ==
    get_cached_bundle_extensions(bundle_extensions_cache, bundle_cache_timestamp, wall)

MatchesConfiguredBundle(p) ==
    \E i \in 1..Len(ConfiguredBundleExtensions) :
        EndsWith(p, ConfiguredBundleExtensions[i])

\* C11: a path whose suffix matches an extension of the configured (fetched
\* and cached, else fallback) bundle-extension list is rejected by
\* process_file_event, and no content hash is computed for it.
C11_ConfiguredBundleRejected ==
    MatchesConfiguredBundle(c_path) =>
        /\ ~c_hashed
        /\ (c_pc = "done" => ~c_result.is_some)

\* the bundle cache holds a list stored at most BundleTtl ago
BundleCacheFresh ==
    /\ bundle_extensions_cache.is_some
    /\ bundle_cache_timestamp.is_some
    /\ wall >= bundle_cache_timestamp.at
    /\ wall - bundle_cache_timestamp.at <= BundleTtl

\* C17: ensure_bundle_cache_valid always returns a list; it is the cached
\* list when that was stored at most one hour before the return, and else
\* (cache absent or older, the refresh having failed or its result being
\* stale again) the non-empty built-in fallback list.
C17_EnsureBundleCache ==
    /\ [](e_pc = "done" => e_result.is_some)
    /\ [][ (e_pc = "get" /\ e_pc' = "done") =>
             /\ e_result'.is_some
             /\ BundleCacheFresh => e_result'.list = bundle_extensions_cache.list
             /\ ~BundleCacheFresh =>
                  /\ e_result'.list = get_fallback_bundle_extensions
                  /\ e_result'.list # <<>> ]_vars

\* a stale cached list, a failed refresh, and the fallback list returned
C17_Witness ==
    /\ e_pc = "done"
    /\ e_refresh = "err"
    /\ bundle_extensions_cache.is_some
    /\ ~BundleCacheFresh
    /\ e_result.list = get_fallback_bundle_extensions


\* str names something below the directory d
UnderDir(str, d) == StartsWith(str, TrimEndSlash(d.path) \o <<"/">>)

\* the blacklist set that belongs to a cached configuration
BlacklistOf(cfg) == IF cfg.is_some THEN ExpectedBlacklist(cfg) ELSE <<>>

\* C12: process_file_event returns metadata only after reading a blacklist
\* set of which no directory is a directory prefix of the path, neither of
\* its raw string nor of its canonicalized form; so a path under a
\* blacklisted directory, by either comparison, gets no metadata.
C12_BlacklistRejected ==
    (c_pc = "done" /\ c_result.is_some) =>
        \E r \in c_reads :
            /\ r.lock = "blacklist_dirs"
            /\ \A i \in DOMAIN BlacklistOf(r.cfg) :
                 /\ ~UnderDir(ToStringLossy(c_path), BlacklistOf(r.cfg)[i])
                 /\ ~UnderDir(ToStringLossy(CanonicalOf(c_path)), BlacklistOf(r.cfg)[i])

\* a path that only in canonical form lies under the blacklisted directory
\* has been rejected by the blacklist check
C12_Witness ==
    /\ c_pc = "done"
    /\ ~c_result.is_some
    /\ c_result.reason = "blacklist"
    /\ \E i \in DOMAIN blacklist_dirs :
         /\ ~UnderDir(ToStringLossy(c_path), blacklist_dirs[i])
         /\ UnderDir(ToStringLossy(CanonicalOf(c_path)), blacklist_dirs[i])


\* some directory above the last segment of p has a name with one of the
\* built-in bundle suffixes, in whatever case
HasBundleAncestor(p) ==
    \E i \in 1..(Len(SplitSlash(p)) - 1) :
        \E ext \in BundleExtensions : EndsWith(ToLower(SplitSlash(p)[i]), ext)

LiveReportDispatched ==
    { <<i, j>> \in (DOMAIN dispatched) \X (1..BatchSize) :
        /\ j \in DOMAIN dispatched[i].records
        /\ dispatched[i].records[j].src = "live"
        /\ dispatched[i].records[j].path = PathReport }

\* the central handler has just called process_file_event for the creation
\* of report.pdf, an existing regular file
LiveReportCreated ==
    /\ p_src = "live"
    /\ c_pc = "start"
    /\ c_path = PathReport
    /\ c_kind = "Create"
    /\ c_fs = "file"

UpstreamGone == tx_holders \cap {"scan", "self"} = {}

\* C18: once the producers of a metadata channel are gone, the batch
\* processor sends what is left in its buffer and its task returns, for the
\* channel of start_monitoring_setup_and_initial_scan as for the one of
\* scan_single_directory.
C18_ClosedFlushAndExit ==
    (UpstreamGone /\ bp_running /\ batch # <<>>) ~> (~bp_running /\ batch = <<>>)


\* the kind the contract names for a raw kind and what the path was when the
\* callback normalised it
ContractKind(raw, fs) ==
    CASE raw = "Create" -> "Added"
      [] raw = "Remove" -> "Removed"
      [] raw = "RenameFrom" -> "Removed"
      [] raw \in {"RenameTo", "RenameBoth"} -> "Added"
      [] OTHER -> IF fs # "missing" THEN "Added" ELSE "Removed"

\* C19: the kind given to process_file_event is Added for a creation,
\* Removed for a removal and for rename-from, Added for rename-to and
\* rename-both, and for every other kind Added exactly when the path existed
\* when the event was normalised.
C19_FinalKind ==
    n_pc = "done" => n_final = ContractKind(n_raw, n_norm_fs)


\* C15: once monitoring runs and no command is under way, every directory of
\* the monitored set has exactly one live native watch and no directory has
\* two.
C15_OneWatchPerDirectory ==
    (app_deb # "none" /\ w_backend = "idle") =>
        \A d \in WatchPaths :
            /\ native_watches[d] <= 1
            /\ d \in MonitoredPaths => native_watches[d] = 1

\* C16: a directory that holds a watch and is no longer in the monitored set
\* loses its watch (unless it comes back into the set).
C16_WatchRemoved ==
    \A d \in WatchPaths :
        (native_watches[d] > 0 /\ d \notin MonitoredPaths)
            ~> (native_watches[d] = 0 \/ d \in MonitoredPaths)


\* C20: no change is executed and initial_scan_completed is not set before
\* the listener has seen processed_files unchanged over its waiting time, and
\* neither happens while the initial scan is running.
C20_QueueWaitsForScan ==
    /\ initial_scan_completed => (g_stable_seen /\ g_scan # "running")
    /\ \A r \in g_exec : g_stable_seen /\ ~r.scanning


\* C21: the watcher callback never has to wait: whenever it has a pair to
\* send, the debounce queue has room for it.
C21_CallbackNeverWaits ==
    cb_pending # <<>> => Len(debounce_q) < DebounceCap


\* the bundle extensions the documentation of is_macos_bundle_folder names:
\* its fallback list and the further ones its unit test expects
DocumentedBundleExtensions ==
    BundleExtensions \cup
        { <<".", "xcodeproj">>, <<".", "key">>, <<".", "pages">>, <<".", "numbers">>,
          <<".", "lproj">>, <<".", "qlgenerator">> }

\* the file name or some component of p ends, in lower case, with one of exts
HasBundleSuffix(p, exts) ==
    \E i \in 1..Len(SplitSlash(p)) :
        \E ext \in exts : EndsWith(ToLower(SplitSlash(p)[i]), ext)

\* C22: is_macos_bundle_folder answers true exactly for the paths whose file
\* name or some component ends, whatever the case, with a bundle extension
\* (.app, .bundle, .framework, .fcpbundle, .photoslibrary, .imovielibrary,
\* .tvlibrary, .xcodeproj, .key, .pages, .numbers, .lproj, .qlgenerator among
\* them), and false for ordinary files, plain folders, hidden files and names
\* that only contain such a word.
C22_BundleDetection ==
    det.pc = "done" =>
        det.result = HasBundleSuffix(det.path, DocumentedBundleExtensions)

\* C22, as the unit test states it: every path of test_paths, none of which
\* exists on disk, gets the expected answer.
C22_UnitTest ==
    \A t \in TestPaths :
        (det.pc = "done" /\ det.path = t[1] /\ det.fs = "missing") => det.result = t[2]


\* C23: a fetch_and_store_all_config that fails leaves the cached
\* configuration, the monitored list and the blacklist list as they were, and
\* get_configurations answers after it what it answered before it, the last
\* snapshot a fetch stored.
C23_FailedFetchKeepsSnapshot ==
    [][cfg_last' = [op |-> "fetch", ok |-> FALSE] =>
          /\ config_cache' = config_cache
          /\ monitored_dirs' = monitored_dirs
          /\ blacklist_dirs' = blacklist_dirs
          /\ get_configurations' = get_configurations]_vars

\* C23 witness: a fetch has failed after one that stored a snapshot with a
\* monitored and a blacklisted folder, and all three are still there
C23_Witness ==
    /\ cfg_last = [op |-> "fetch", ok |-> FALSE]
    /\ fetch_ok > 0
    /\ get_configurations # NoConfig
    /\ monitored_dirs # <<>>
    /\ blacklist_dirs # <<>>


\* whether a change has execute_single_config_change clean the screening data
NeedsCleanup(change) ==
    \/ change.kind = "AddBlacklist"
    \/ change.kind = "DeleteFolder" /\ change.is_blacklist
    \/ change.kind = "ToggleFolder" /\ change.is_blacklist

\* the calls before the last one of a change all failed
EarlierFailed(tries) == \A i \in 1..(Len(tries) - 1) : ~tries[i]

\* C24: a change that needs the remote cleanup is reported as failed only
\* after 3 failed calls of clean-by-path with a growing sleep between them; a
\* call that succeeds is the last one and makes the change succeed.
C24_CleanupRetried ==
    \A i \in 1..Len(cu.log) :
        LET r == cu.log[i]
        IN  NeedsCleanup(r.change) =>
              /\ Len(r.tries) \in 1..MaxCleanupRetries
              /\ EarlierFailed(r.tries)
              /\ r.ok = r.tries[Len(r.tries)]
              /\ ~r.ok => Len(r.tries) = MaxCleanupRetries
              /\ r.slept = [k \in 1..(Len(r.tries) - 1) |-> k]


\* C25: no file-system call and no network call is made by a task that holds
\* the lock of the monitored set or the lock of the blacklist set.
C25_NoLockAcrossCalls ==
    \A e \in lk.io : e.held = {}


\* an enabled rule with the action Exclude matches the name or extension of p
MatchesExclude(p, cfg) ==
    /\ cfg.is_some
    /\ \E i \in DOMAIN cfg.file_filter_rules :
          LET rule == cfg.file_filter_rules[i]
          IN  /\ rule.enabled
              /\ rule.action = "Exclude"
              /\ RuleMatches(rule, ToLower(FileName(p)), extract_extension(p))

\* process_file_event has built the metadata of c_path, and
\* apply_initial_rules has marked it as excluded by a rule
ExcludedClassified ==
    /\ c_pc \in {"done", "idle"}
    /\ c_rules_ran
    /\ c_meta.is_some
    /\ c_meta.excluded_by_rule_id # 0

\* C26 as stated: a path matched by an enabled Exclude rule comes out of the
\* classification as a FileMetadata carrying the mark, for the batch stage to
\* filter.
C26_AsStated ==
    ExcludedClassified =>
        /\ c_result.is_some
        /\ c_result.excluded_by_rule_id # 0

\* C26 (as amended): the FileMetadata of a path matched by an enabled Exclude
\* rule is built and marked, and process_file_event then answers None, so no
\* marked record is sent to the batch processor, its counter of rule-excluded
\* records stays at 0, and no record of such a path is dispatched.
C26_ExcludedStopsAtClassification ==
    /\ ExcludedClassified => ~c_result.is_some
    /\ \A i \in DOMAIN p_sent :
          /\ ~p_sent[i].meta.excluded
          /\ ~MatchesExclude(p_sent[i].path, config_cache)
    /\ b_stats.rule_excluded_files_skipped = 0
    /\ \A i \in DOMAIN dispatched :
          \A j \in DOMAIN dispatched[i].records :
              ~MatchesExclude(dispatched[i].records[j].path, config_cache)

\* C26 witness: draft.pdf has been classified and marked by the rule
\* exclude-draft, the producer has gone on without sending it, and the batch
\* processor has dispatched report.pdf
C26_Witness ==
    /\ ExcludedClassified
    /\ c_path = PathDraft
    /\ MatchesExclude(PathDraft, config_cache)
    /\ p_src = "none"
    /\ dispatched # <<>>


\* the sets of raw events behind the records that are in the buffer, taken
\* by the tick and not yet sent, or in the central channel
RecordEvents ==
    [ place \in {"buffer", "taken", "channel"} |->
        CASE place = "buffer" ->
                 { debounce_buffer[q].evs :
                     q \in { x \in DOMAIN debounce_buffer :
                               debounce_buffer[x].kind # "absent" } }
          [] place = "taken" -> { e.evs : e \in fwd_pending }
          [] OTHER -> { central_q[k].evs : k \in DOMAIN central_q } ]

\* no raw event stands behind two records, or behind a record that is still
\* on its way and one the central handler has received
EachForwardedOnce ==
    LET all == RecordEvents["buffer"] \cup RecordEvents["taken"]
                   \cup RecordEvents["channel"]
    IN  /\ \A a \in all : a # {} /\ a \cap ev_done = {}
        /\ \A a, b \in all : a # b => a \cap b = {}
        /\ Cardinality(RecordEvents["buffer"]) + Cardinality(fwd_pending)
               + Len(central_q) = Cardinality(all)

\* s is the beginning of t
IsPrefix(s, t) == Len(s) <= Len(t) /\ SubSeq(t, 1, Len(s)) = s

\* C27: a tick takes every buffered record out of the buffer in one step;
\* each taken record goes to the central handler once, so a record that goes
\* there later stands for raw events that arrived since; and what arrives
\* while the taken records are being sent stays in the queue, for the next
\* window.
C27_TickForwardsOnce ==
    /\ [][(fwd_pending = {} /\ fwd_pending' # {}) =>
             /\ debounce_buffer' = EmptyBuffer
             /\ fwd_pending' = BufferEntries(debounce_buffer)]_vars
    /\ [][(fwd_pending # {} /\ fwd_pending' # fwd_pending) =>
             \E e \in fwd_pending :
                 /\ fwd_pending' = fwd_pending \ {e}
                 /\ central_q' = Append(central_q, e)]_vars
    /\ [][fwd_pending # {} =>
             /\ debounce_buffer' = EmptyBuffer
             /\ IsPrefix(debounce_q, debounce_q')]_vars
    /\ []EachForwardedOnce
    /\ [](\A i \in 1..ev_count : i \in InFlightIds \cup ev_done)

\* C27 witness: the tick took two records, one is in the central channel and
\* one still waits for room there, and a raw event that arrived meanwhile is
\* in the debounce queue
C27_Witness ==
    /\ Cardinality(fwd_pending) = 1
    /\ Len(central_q) = 1
    /\ debounce_q # <<>>
    /\ debounce_buffer = EmptyBuffer


\* the records of the path arrive at the central handler in the order of the
\* raw events they stand for
DeliveredInArrivalOrder ==
    \A i, j \in DOMAIN mw.delivered :
        i < j => mw.delivered[i].id <= mw.delivered[j].id

\* C28: the kinds of one path reach the central handler in the order in which
\* the raw events of the path arrived, one watch or several observing it: a
\* record holds the kind of the last raw event its watch had received at the
\* tick, and no record follows one that stands for a later raw event.
C28_PerPathOrder ==
    /\ \A i \in DOMAIN mw.delivered :
          \E chk \in Checks(mw.events[mw.delivered[i].id]) :
              mw.delivered[i].kind = ProcessedKind(mw.events[mw.delivered[i].id], chk)
    /\ \A w \in WatchIds : mw.taken[w] # NoRecord => mw.taken[w].id = mw.seen[w]
    /\ DeliveredInArrivalOrder

\* C28 for a path that one watch observes
C28_OneWatchOrder ==
    mw.watches = {1} => C28_PerPathOrder


\* the positions of the enabled rules that match the file and name a category
CategoryRules(meta, rules) ==
    { i \in DOMAIN rules :
        /\ rules[i].enabled
        /\ rules[i].category_id # 0
        /\ RuleMatches(rules[i], ToLower(meta.file_name), meta.extension) }

\* the positions of the extension-map entries for the extension of the file
ExtEntries(meta, maps) ==
    { i \in DOMAIN maps : meta.extension # None /\ maps[i].extension = meta.extension }

\* the least and the greatest member of a set of numbers that is not empty
Least(S) == CHOOSE x \in S : \A y \in S : x <= y

Greatest(S) == CHOOSE x \in S : \A y \in S : x >= y

\* rule is one of the rules of the list that are enabled
EnabledTwin(rule, rules) ==
    \E k \in DOMAIN rules : rules[k].enabled /\ rules[k].id = rule.id

\* the members of a sequence
Members(seq) == { seq[k] : k \in DOMAIN seq }

\* C29: after apply_initial_rules the category_id is that of the last enabled
\* matching rule that names a category; when there is no such rule it is that
\* of the first entry of the extension map for the extension of the file (none
\* when there is no entry); and a rule that is not enabled leaves no match,
\* no tag and no exclusion, and is no member of the rules that give the category.
C29_CategoryPrecedence ==
    ru.pc = "done" =>
        LET rules == ru.cfg.file_filter_rules
            maps == ru.cfg.file_extension_maps
            byRule == CategoryRules(ru.meta, rules)
            byExt == ExtEntries(ru.meta, maps)
        IN  /\ ru.out.category_id =
                  IF byRule # {} THEN rules[Greatest(byRule)].category_id
                  ELSE IF byExt # {} THEN maps[Least(byExt)].category_id
                  ELSE 0
            /\ \A k \in DOMAIN rules :
                  (~rules[k].enabled /\ ~EnabledTwin(rules[k], rules)) =>
                      /\ rules[k].name \notin Members(ru.out.initial_rule_matches)
                      /\ rules[k].name \notin Members(ru.out.tags)
                      /\ ru.out.excluded_by_rule_id # rules[k].id

\* C29 witness: report.pdf under an extension map that gives category 1 and
\* the rules cat-report (category 3), tag-pdf (category 2): both match, the
\* category is 2; and a call with the rule off-cat, which is not enabled
C29_Witness ==
    /\ ru.pc = "done"
    /\ ru.meta.file_path = PathReport
    /\ ru.cfg.file_extension_maps = <<ExtMap(<<"pdf">>, 1), ExtMap(<<"pdf">>, 6)>>
    /\ \/ /\ Len(ru.cfg.file_filter_rules) = 2
          /\ ru.cfg.file_filter_rules[1].id = 5
          /\ ru.cfg.file_filter_rules[2].id = 2
          /\ ru.out.category_id = 2
       \/ /\ Len(ru.cfg.file_filter_rules) = 1
          /\ ru.cfg.file_filter_rules[1].id = 6
          /\ ru.out.category_id = 1


\* process_file_event returns None for a skipped entry, called as the scan
\* calls it, under the configuration and the sets of the scan
WouldBeRejected(s) ==
    ~process_file_event(s.path, "Create", s.fs, sw.cfg, sw.monitored, sw.blacklist).is_some

\* C30: every entry the initial scan skips, because the closure of
\* filter_entry answered false for the entry or for a directory above it, is
\* an entry process_file_event returns None for under the same configuration.
C30_PrunedWouldBeRejected ==
    \A s \in sw.skipped : WouldBeRejected(s)

\* C30, for the entries the closure itself answers false for, and for the
\* entries below a directory that was left out for another reason than its
\* Contents/Info.plist alone
C30_PrunedByNameRejected ==
    \A s \in sw.skipped :
        (s.self \/ \E ext \in BundleExtensions : Contains(s.path, ext)
                \/ s.why \in {"hidden", "blacklist"}) => WouldBeRejected(s)


\* the emissions of the log are at least d apart
EmissionsApart(d) ==
    \A i, j \in DOMAIN eb.log : i < j => eb.log[j].at - eb.log[i].at >= d

\* C32: for an event name with the policy Throttle(d), two emissions to the
\* frontend, by handle_event or by the flush task, are at least d apart.
C32_ThrottleSpacing ==
    (eb.pc = "open" /\ Strategy(eb.name).kind = "Throttle") =>
        EmissionsApart(Strategy(eb.name).d)

\* the direct emissions of handle_throttle are at least d apart from each
\* other
C32_DirectSpacing ==
    (eb.pc = "open" /\ Strategy(eb.name).kind = "Throttle") =>
        \A i, j \in DOMAIN eb.log :
            (i < j /\ eb.log[i].by = "direct" /\ eb.log[j].by = "direct") =>
                eb.log[j].at - eb.log[i].at >= Strategy(eb.name).d

\* C33: for an event name with the policy DelayedMerge(w), the events of a
\* window are buffered as one entry with the latest payload, and the entry is
\* emitted no later than w plus one flush tick after the first of them came.
C33_MergedWithinWindow ==
    (eb.pc = "open" /\ Strategy(eb.name).kind = "DelayedMerge" /\ eb.entry.is_some) =>
        /\ eb.entry.data = eb.sent
        /\ eb.clock - eb.entry.first_time <= Strategy(eb.name).d + FlushInterval

\* the entry of a DelayedMerge name carries the latest payload, and what the
\* flush task emits is the latest payload handed in before the emission
C33_LatestPayload ==
    Strategy(eb.name).kind = "DelayedMerge" =>
        /\ eb.entry.is_some => eb.entry.data = eb.sent
        /\ \A i, j \in DOMAIN eb.log : i < j => eb.log[i].id < eb.log[j].id

\* C40: no bridge event is emitted to the frontend twice.
C40_EmittedAtMostOnce ==
    \A i, j \in DOMAIN eb.log : i < j => eb.log[i].id # eb.log[j].id

\* no event of an Immediate or DelayedMerge name is emitted twice
C40_OtherPoliciesOnce ==
    Strategy(eb.name).kind # "Throttle" =>
        \A i, j \in DOMAIN eb.log : i < j => eb.log[i].id # eb.log[j].id


\* C31: queued configuration changes are executed in the order of queueing:
\* a change is started only when every change queued before it has been
\* carried out, also when the queue is processed again while an earlier
\* batch is being executed.
C31_ExecutedInQueueOrder ==
    \A c \in cq.started : \A earlier \in 1..(c - 1) : earlier \in cq.finished

\* the changes of one task are executed in the order of queueing, one after
\* the other
C31_OrderWithinBatch ==
    \A t \in DOMAIN cq.tasks :
        \A i, j \in DOMAIN cq.tasks[t].changes :
            (i < j /\ cq.tasks[t].changes[j] \in cq.started) =>
                cq.tasks[t].changes[i] \in cq.finished


\* the monitored set that belongs to a cached configuration
MonitoredOf(cfg) == IF cfg.is_some THEN ExpectedMonitored(cfg) ELSE <<>>

\* C34: process_file_event returns metadata only for a path that is inside a
\* directory of the monitored set it has read, that is the directory itself or
\* the path of the directory followed by a separator; a path in a sibling
\* directory whose name only begins like the monitored directory
\* (/data/docs2/report.pdf beside /data/docs) gets no metadata.
C34_OnlyInsideMonitored ==
    (c_pc = "done" /\ c_result.is_some) =>
        \E r \in c_reads :
            /\ r.lock = "monitored_dirs"
            /\ \E i \in DOMAIN MonitoredOf(r.cfg) :
                 \/ ToStringLossy(c_path) = TrimEndSlash(MonitoredOf(r.cfg)[i].path)
                 \/ UnderDir(ToStringLossy(c_path), MonitoredOf(r.cfg)[i])

\* process_file_event returns metadata only for a path whose string begins
\* with the path of a directory of the monitored set it has read
C34_PrefixOfMonitored ==
    (c_pc = "done" /\ c_result.is_some) =>
        \E r \in c_reads :
            /\ r.lock = "monitored_dirs"
            /\ BelongsToMonitored(c_path, MonitoredOf(r.cfg))


\* C35: while the configuration cache is empty the monitored set is empty,
\* and process_file_event neither builds metadata, nor evaluates rules, nor
\* returns metadata for any path.
C35_NoSnapshotNoClassification ==
    ~config_cache.is_some =>
        /\ monitored_dirs = <<>>
        /\ ~c_meta.is_some
        /\ ~c_rules_ran
        /\ ~c_result.is_some

\* the configuration cache, once filled, is never emptied: stated for the
\* commands that edit the monitored set as well
C35_AbsentMeansEmpty ==
    ~config_cache.is_some => (monitored_dirs = <<>> /\ blacklist_dirs = <<>>)

\* C35 witness: with no configuration fetched, process_file_event was called
\* for a created path and has returned None at the test of the monitored set
C35_Witness ==
    /\ ~config_cache.is_some
    /\ c_kind = "Create"
    /\ c_fs = "file"
    /\ c_pc = "done"
    /\ c_result = [is_some |-> FALSE, reason |-> "not_monitored"]


\* the sum of the six skip counters of BatchProcessorStats
SkippedTotal(st) ==
    st.hidden_files_skipped + st.bundle_skipped + st.rule_excluded_files_skipped
        + st.invalid_extension_skipped + st.ds_store_skipped + st.directory_skipped

\* the counters of BatchProcessorStats other than received_files
OutcomeCounters ==
    { "hidden_files_skipped", "bundle_skipped", "rule_excluded_files_skipped",
      "invalid_extension_skipped", "ds_store_skipped", "directory_skipped",
      "processed_files" }

\* C38: received_files is processed_files plus the six skip counters and is
\* the number of records received; processed_files is the number of records
\* ever placed in the buffer (those dispatched and those still buffered); and
\* a received record increments one of the seven counters by one and leaves
\* the other six as they are.
C38_StatsAccounting ==
    /\ [](/\ b_stats.received_files = b_stats.processed_files + SkippedTotal(b_stats)
          /\ b_stats.received_files = recv_count
          /\ b_stats.processed_files = DispatchedCount(Len(dispatched)) + Len(batch))
    /\ [][b_stats' # b_stats =>
             /\ b_stats'.received_files = b_stats.received_files + 1
             /\ \E f \in OutcomeCounters :
                   /\ b_stats'[f] = b_stats[f] + 1
                   /\ \A g \in OutcomeCounters \ {f} : b_stats'[g] = b_stats[g]]_vars

\* C38 witness: a directory and a .DS_Store file have been skipped, a record
\* has been buffered and a batch has been dispatched
C38_Witness ==
    /\ b_stats.directory_skipped > 0
    /\ b_stats.ds_store_skipped > 0
    /\ b_stats.processed_files > 0
    /\ dispatched # <<>>


C39_BlacklistIdRefused ==
    /\ cfg_last = [op |-> "stop", ok |-> FALSE, id |-> 3]
    /\ \E i \in DOMAIN blacklist_dirs : blacklist_dirs[i].id = 3


\* C36: get_configuration_summary never calls lock() on a mutex its thread
\* holds, and so it is never left blocked or panicking at such a call.
C36_SummaryNeverRelocks ==
    \A t \in DOMAIN lo.fn :
        lo.fn[t] = "get_configuration_summary" =>
            /\ ~(lo.fate[t] = "running" /\ NextOp(t).op = "lock"
                    /\ lo.owner[NextOp(t).mutex] = t)
            /\ lo.fate[t] \notin {"stuck", "panicked"}

\* the order of the mutexes
LockRank(m) ==
    CASE m = "config_cache" -> 1
      [] m = "monitored_dirs" -> 2
      [] m = "blacklist_dirs" -> 3
      [] m = "bundle_extensions_cache" -> 4
      [] m = "bundle_cache_timestamp" -> 5
      [] m = "stats" -> 6

\* thread t can take its next step
CanStep(t) ==
    /\ lo.fate[t] = "running"
    /\ NextOp(t).op = "lock" => lo.owner[NextOp(t).mutex] = 0

\* C37: the threads of fetch_and_store_all_config, stop_monitoring_directory,
\* update_directory_status, process_file_event, the batch processor,
\* update_bundle_cache and get_cached_bundle_extensions never come to a state
\* in which threads wait and none can go on, and a thread that calls lock()
\* holds only mutexes that come before the one it asks for, in the order
\* configuration, monitored set, blacklist set, bundle cache, bundle
\* timestamp, stats.
C37_NoDeadlock ==
    /\ (\E t \in DOMAIN lo.fn : lo.fate[t] = "running") =>
           \E t \in DOMAIN lo.fn : CanStep(t)
    /\ \A t \in DOMAIN lo.fn :
           (lo.fate[t] = "running" /\ NextOp(t).op = "lock") =>
               \A m \in Mutexes :
                   lo.owner[m] = t => LockRank(m) < LockRank(NextOp(t).mutex)

\* C37 witness: a thread in fetch_and_store_all_config holds the
\* configuration cache and waits for the monitored set, which a thread in
\* stop_monitoring_directory holds
C37_Witness ==
    \E t, u \in DOMAIN lo.fn :
        /\ lo.fn[t] = "fetch_and_store_all_config"
        /\ lo.fn[u] = "stop_monitoring_directory"
        /\ lo.owner["config_cache"] = t
        /\ lo.owner["monitored_dirs"] = u
        /\ lo.fate[t] = "running"
        /\ NextOp(t) = Acq("monitored_dirs")

====
